---- MODULE Spec2Model ----
(***************************************************************************)
(* vite-plugin-unlock: the override index, the resolution hooks and the    *)
(* watcher's incremental invalidation engine.                               *)
(*                                                                         *)
(* Strings are sequences of one-character strings, so that the code's      *)
(* string operations (startsWith, the extension regex, split on "/", the   *)
(* default sort) are computed and not assumed.  An absolute path is the    *)
(* sequence of its segments ("/o/B.ts" is << <<"o">>, <<"B",".","t","s">> >>).*)
(* normalizePath only rewrites backslashes; paths here are POSIX paths.    *)
(***************************************************************************)
EXTENDS Naturals, Integers, Sequences, FiniteSets, TLC

\* The absent value (null / undefined) of a string, a key or a path.
NULL == <<>>

(***************************************************************************)
(* Strings                                                                 *)
(***************************************************************************)

\* Characters in ascending UTF-16 code unit order (the order of Array.sort()).
Alphabet ==
  << ".", "/", "@", "A", "B", "C", "Z", "_",
     "a", "c", "d", "e", "i", "j", "l", "m", "n", "o", "p", "r", "s", "t", "u",
     "v", "w", "x" >>

Code(c) == CHOOSE i \in 1..Len(Alphabet) : Alphabet[i] = c

startsWith(s, p) == Len(p) <= Len(s) /\ SubSeq(s, 1, Len(p)) = p

endsWith(s, p) == Len(p) <= Len(s) /\ SubSeq(s, Len(s) - Len(p) + 1, Len(s)) = p

\* s < t in the default sort order of strings (code unit by code unit).
RECURSIVE StrLess(_, _)
StrLess(s, t) ==
  IF t = <<>> THEN FALSE
  ELSE IF s = <<>> THEN TRUE
  ELSE IF s[1] = t[1] THEN StrLess(Tail(s), Tail(t))
  ELSE Code(s[1]) < Code(t[1])

\* s.split("/") : the segments of a string, empty ones included.
RECURSIVE SplitFrom(_, _, _)
SplitFrom(s, i, cur) ==
  IF i > Len(s) THEN << cur >>
  ELSE IF s[i] = "/" THEN << cur >> \o SplitFrom(s, i + 1, <<>>)
  ELSE SplitFrom(s, i + 1, Append(cur, s[i]))

Split(s) == SplitFrom(s, 1, <<>>)

\* segs.join("/")
RECURSIVE Join(_)
Join(segs) ==
  IF segs = <<>> THEN <<>>
  ELSE IF Len(segs) = 1 THEN segs[1]
  ELSE segs[1] \o <<"/">> \o Join(Tail(segs))

\* The absolute path as one string, "/" + segments joined by "/".
PathStr(p) == <<"/">> \o Join(p)

\* The index of the last "." of s, 0 when there is none.
RECURSIVE LastDotFrom(_, _)
LastDotFrom(s, i) ==
  IF i = 0 THEN 0 ELSE IF s[i] = "." THEN i ELSE LastDotFrom(s, i - 1)

LastDot(s) == LastDotFrom(s, Len(s))

ExtFrom(name, d) == IF d <= 1 THEN <<>> ELSE SubSeq(name, d, Len(name))

\* path.extname of a file name: from the last "." on, "" for a dot file.
extname(name) == ExtFrom(name, LastDot(name))

\* The alternatives of the regex of stripExtension.
StripExts ==
  { <<".","t","s","x">>, <<".","t","s">>, <<".","j","s","x">>, <<".","j","s">>,
    <<".","m","t","s">>, <<".","m","j","s">>, <<".","v","u","e">>,
    <<".","s","v","e","l","t","e">> }

StripFrom(filename, d) ==
  IF d >= 1 /\ SubSeq(filename, d, Len(filename)) \in StripExts
  THEN SubSeq(filename, 1, d - 1)
  ELSE filename

\* filename.replace(/\.(tsx?|jsx?|mts|mjs|vue|svelte)$/, "")
stripExtension(filename) == StripFrom(filename, LastDot(filename))

(***************************************************************************)
(* Paths                                                                   *)
(***************************************************************************)

\* path.basename of an absolute path
basename(p) == IF p = <<>> THEN <<>> ELSE p[Len(p)]

\* path.dirname
dirname(p) == IF p = <<>> THEN <<>> ELSE SubSeq(p, 1, Len(p) - 1)

\* norm.startsWith(normalizePath(dir) + "/")
IsUnder(p, dir) == Len(p) > Len(dir) /\ SubSeq(p, 1, Len(dir)) = dir

\* path.relative(dir, p) for p under dir: the segments below dir.
relative(dir, p) == SubSeq(p, Len(dir) + 1, Len(p))

(***************************************************************************)
(* Maps (the code's Map objects; iteration order is not observable in any  *)
(* result modelled here, so a Map is a function on its key set)            *)
(***************************************************************************)

EmptyMap == [k \in {} |-> NULL]

MapHas(m, k) == k \in DOMAIN m

\* m.get(k), undefined modelled as NULL
MapGet(m, k) == IF k \in DOMAIN m THEN m[k] ELSE NULL

\* m.set(k, v)
MapSet(m, k, v) == [x \in (DOMAIN m) \cup {k} |-> IF x = k THEN v ELSE m[x]]

Range(seq) == { seq[i] : i \in 1..Len(seq) }

\* The least member of a set of indices, 0 when it is empty: the first hit of
\* a loop over the indices
FirstOf(S) == IF S = {} THEN 0 ELSE CHOOSE t \in S : \A u \in S : t <= u

(***************************************************************************)
(* Scanner                                                                 *)
(***************************************************************************)

MAX_SCAN_DEPTH == 20

DEFAULT_EXTENSIONS ==
  { <<".","t","s","x">>, <<".","t","s">>, <<".","j","s","x">>, <<".","j","s">>,
    <<".","v","u","e">>, <<".","s","v","e","l","t","e">>,
    <<".","m","t","s">>, <<".","m","j","s">> }

sIndex == <<"i","n","d","e","x">>
sNodeModules == <<"n","o","d","e","_","m","o","d","u","l","e","s">>

\* The member of a set of paths whose string is least
Least(S) == CHOOSE x \in S : \A y \in S \ {x} : StrLess(PathStr(x), PathStr(y))

\* The paths of a set as a sequence in ascending order of their strings.
RECURSIVE AscSeq(_)
AscFrom(S, m) == << m >> \o AscSeq(S \ {m})

AscSeq(S) == IF S = {} THEN <<>> ELSE AscFrom(S, Least(S))

RECURSIVE Reverse(_)
Reverse(seq) == IF seq = <<>> THEN <<>> ELSE Append(Reverse(Tail(seq)), seq[1])

\* The order in which readdirSync lists entries is the file system's; the
\* model draws it from ReaddirOrders.
ReaddirOrders == {"asc", "desc"}

InOrder(asc, order) == IF order = "asc" THEN asc ELSE Reverse(asc)

\* What collectFiles keeps of the entries below dir: no segment starting with
\* "." or named node_modules, within the depth limit, an accepted extension
Collectable(rel, extensionSet) ==
  /\ \A i \in 1..Len(rel) : ~startsWith(rel[i], <<".">>) /\ rel[i] # sNodeModules
  /\ Len(rel) - 1 <= MAX_SCAN_DEPTH
  /\ extname(rel[Len(rel)]) \in extensionSet

\* collectFiles(dir, extensionSet): the files on disk under dir in readdir order
collectFiles(dir, extensionSet, files, order) ==
  InOrder(AscSeq({ f \in files :
                     IsUnder(f, dir) /\ Collectable(relative(dir, f), extensionSet) }),
          order)

\* Array.prototype.sort() left out: the list stays in readdir order
SortNoSort(seq) == seq

\* Array.prototype.sort() without a comparator
SortFiles(seq) == AscSeq(Range(seq))

\* getOverrideKey once the base name is known
KeyOfName(baseName, filePath, baseDir, match) ==
  IF baseName = <<>> THEN NULL
  ELSE IF match = "path" THEN stripExtension(Join(relative(baseDir, filePath)))
  ELSE IF baseName = sIndex
    THEN (IF Len(filePath) >= 2 THEN filePath[Len(filePath) - 1] ELSE NULL)
  ELSE baseName

\* getOverrideKey(filePath, baseDir, match)
getOverrideKey(filePath, baseDir, match) ==
  IF Len(filePath) = 0 THEN NULL
  ELSE KeyOfName(stripExtension(basename(filePath)), filePath, baseDir, match)

\* if (key) map.set(key, f)
SetIfKey(map, key, f) == IF key # NULL THEN MapSet(map, key, f) ELSE map

\* scanTarget(target, opts): key -> file path of one target
RECURSIVE ScanTargetFold(_, _, _, _)
ScanTargetFold(fs, srcPath, match, map) ==
  IF fs = <<>> THEN map
  ELSE ScanTargetFold(Tail(fs), srcPath, match,
                      SetIfKey(map, getOverrideKey(fs[1], srcPath, match), fs[1]))

scanTarget(target, opts, files, order) ==
  ScanTargetFold(collectFiles(target.srcPath, opts.extensionSet, files, order),
                 target.srcPath, opts.match, EmptyMap)

\* The inner loop of scanAllTargets: combined.set(key, {target, filePath})
CombineTarget(combined, t, targetMap) ==
  [k \in (DOMAIN combined) \cup (DOMAIN targetMap) |->
     IF k \in DOMAIN targetMap THEN [target |-> t, filePath |-> targetMap[k]]
     ELSE combined[k]]

\* scanAllTargets(opts, logger): a target is named by its index in opts.targets
RECURSIVE ScanAllFrom(_, _, _, _, _)
ScanAllFrom(opts, files, order, t, combined) ==
  IF t > Len(opts.targets) THEN combined
  ELSE ScanAllFrom(opts, files, order, t + 1,
         CombineTarget(combined, t, scanTarget(opts.targets[t], opts, files, order)))

scanAllTargets(opts, files, order) == ScanAllFrom(opts, files, order, 1, EmptyMap)

\* relative.match(/^(@[^/]+\/[^/]+)\//) on the segments below the override dir
ScopedMatch(rel) ==
  IF Len(rel) >= 3 /\ Len(rel[1]) >= 2 /\ rel[1][1] = "@" /\ Len(rel[2]) >= 1
  THEN rel[1] \o <<"/">> \o rel[2]
  ELSE NULL

\* detectNamespace(filePath, overrideDir)
detectNamespace(filePath, overrideDir) == ScopedMatch(relative(overrideDir, filePath))

TargetPackages(opts) == { opts.targets[t].package : t \in 1..Len(opts.targets) }

\* Only the first segment of the relative path is tested
IsSkippedFirst(rel) == startsWith(rel[1], <<"_">>)

\* relative.split("/").some((part) => part.startsWith("_"))
IsSkipped(rel) == \E i \in 1..Len(rel) : startsWith(rel[i], <<"_">>)

\* The two branches of the loop body of scanOverrides once the key is known
PutOverride(acc, isNs, ns, key, fullPath) ==
  IF key = NULL \/ key = sIndex THEN acc
  ELSE IF isNs
    THEN [acc EXCEPT !.namespaced =
            MapSet(@, ns, MapSet(IF MapHas(@, ns) THEN @[ns] ELSE EmptyMap,
                                 key, fullPath))]
  ELSE [acc EXCEPT !.flat = MapSet(@, key, fullPath)]

\* The loop body of scanOverrides once the namespace is detected
ScanFileIn(acc, fullPath, dir, opts, ns, isNs) ==
  PutOverride(acc, isNs, ns,
              getOverrideKey(fullPath, IF isNs THEN dir \o Split(ns) ELSE dir,
                             opts.match),
              fullPath)

ScanFileNs(acc, fullPath, dir, opts, ns) ==
  ScanFileIn(acc, fullPath, dir, opts, ns, ns # NULL /\ ns \in TargetPackages(opts))

\* The loop body of scanOverrides for one file
ScanFile(acc, fullPath, dir, opts) ==
  IF IsSkipped(relative(dir, fullPath)) THEN acc
  ELSE ScanFileNs(acc, fullPath, dir, opts, detectNamespace(fullPath, dir))

\* The loop of scanOverrides over the sorted files of one directory
RECURSIVE ScanDirFold(_, _, _, _)
ScanDirFold(fs, dir, opts, acc) ==
  IF fs = <<>> THEN acc
  ELSE ScanDirFold(Tail(fs), dir, opts, ScanFile(acc, fs[1], dir, opts))

\* The loop of scanOverrides over the override directories
RECURSIVE ScanDirsFrom(_, _, _, _, _)
ScanDirsFrom(opts, files, order, d, acc) ==
  IF d > Len(opts.overrideDirs) THEN acc
  ELSE ScanDirsFrom(opts, files, order, d + 1,
         ScanDirFold(SortFiles(collectFiles(opts.overrideDirs[d], opts.extensionSet,
                                            files, order)),
                     opts.overrideDirs[d], opts, acc))

\* scanOverrides(opts, logger)
scanOverrides(opts, files, order) ==
  ScanDirsFrom(opts, files, order, 1, [flat |-> EmptyMap, namespaced |-> EmptyMap])

\* The flat overrides are not filtered
FilterNone(flat, targetFiles) == flat

\* "Filter flat overrides to only those matching target files"
FilterFlat(flat, targetFiles) ==
  [k \in { x \in DOMAIN flat : MapHas(targetFiles, x) } |-> flat[k]]

(***************************************************************************)
(* Resolver                                                                *)
(***************************************************************************)

\* s.includes(sub)
Includes(s, sub) ==
  \E i \in 1..(Len(s) - Len(sub) + 1) : SubSeq(s, i, i + Len(sub) - 1) = sub

\* s.replace(/\?.*$/, "")
StripQuery(s) ==
  IF \E i \in 1..Len(s) : s[i] = "?"
  THEN SubSeq(s, 1, (CHOOSE i \in 1..Len(s) :
                        s[i] = "?" /\ \A j \in 1..(i - 1) : s[j] # "?") - 1)
  ELSE s

\* The file a path string names
ToPath(str) == SelectSeq(Split(str), LAMBDA seg : seg # <<>>)

\* path.basename of a specifier or id string
StrBasename(str) == basename(ToPath(str))

HasEntryRedirect(target) == target.entryRedirect.from # NULL

NoEntryRedirect == [from |-> NULL, to |-> NULL]

\* The test of the loop of findImporterTarget on one target
OwnsImporter(importer, normSrc, pkgDir) ==
  \/ startsWith(importer, normSrc \o <<"/">>)
  \/ importer = normSrc
  \/ startsWith(importer, pkgDir \o <<"/">>)

\* findImporterTarget(importer, opts): the index of the owning target, 0 for null
findImporterTarget(importer, opts) ==
  FirstOf({ t \in 1..Len(opts.targets) :
              OwnsImporter(importer, PathStr(opts.targets[t].srcPath),
                           PathStr(dirname(opts.targets[t].srcPath))) })

sDistApp == <<"/","d","i","s","t","/","a","p","p",".">>
sDistAppMjs == sDistApp \o <<"m","j","s">>
sDistAppJs == sDistApp \o <<"j","s">>
sSrcAppTsx == <<"/","s","r","c","/","a","p","p",".","t","s","x">>

\* norm.replace(/\/dist\/app\.(mjs|js)$/, "/src/app.tsx")
ReplaceDistApp(norm) ==
  IF endsWith(norm, sDistAppMjs)
    THEN SubSeq(norm, 1, Len(norm) - Len(sDistAppMjs)) \o sSrcAppTsx
  ELSE IF endsWith(norm, sDistAppJs)
    THEN SubSeq(norm, 1, Len(norm) - Len(sDistAppJs)) \o sSrcAppTsx
  ELSE norm

\* if (cond && fs.existsSync(srcEntry)) return srcEntry
EntryIf(cond, srcEntry, files) == IF cond /\ srcEntry \in files THEN srcEntry ELSE NULL

\* What one target contributes in the loop of resolveEntryRedirect
EntryRedirectOf(norm, target, files) ==
  IF HasEntryRedirect(target)
  THEN EntryIf(Includes(norm, <<"/">> \o target.entryRedirect.from),
               dirname(target.srcPath) \o ToPath(target.entryRedirect.to), files)
  ELSE EntryIf(Includes(norm, <<"/">> \o StrBasename(target.package) \o sDistApp),
               ToPath(ReplaceDistApp(norm)), files)

RedirectAt(norm, opts, files, t) ==
  IF t = 0 THEN NULL ELSE EntryRedirectOf(norm, opts.targets[t], files)

RedirectOfNorm(norm, opts, files) ==
  RedirectAt(norm, opts, files,
             FirstOf({ t \in 1..Len(opts.targets) :
                         EntryRedirectOf(norm, opts.targets[t], files) # NULL }))

\* resolveEntryRedirect(resolvedId, opts, logger): the first target's redirect
resolveEntryRedirect(resolvedId, opts, files) ==
  RedirectOfNorm(StripQuery(resolvedId), opts, files)

(***************************************************************************)
(* Plugin creation                                                         *)
(***************************************************************************)

\* perTargetMaps of detectConflicts
PerTargetMaps(opts, files, order) ==
  [t \in 1..Len(opts.targets) |-> scanTarget(opts.targets[t], opts, files, order)]

\* The targets that contain a file producing key (matchingTargets)
MatchingTargets(key, perTargetMaps) ==
  { t \in DOMAIN perTargetMaps : MapHas(perTargetMaps[t], key) }

\* matchingTargets.length > 0
ConflictKeysAny(flat, perTargetMaps) ==
  { key \in DOMAIN flat : Cardinality(MatchingTargets(key, perTargetMaps)) > 0 }

\* The flat keys with matchingTargets.length > 1
ConflictKeys(flat, perTargetMaps) ==
  { key \in DOMAIN flat : Cardinality(MatchingTargets(key, perTargetMaps)) > 1 }

\* What detectConflicts does about the conflicting keys
ConflictOutcome(conflicts, onConflict) ==
  [ thrown |-> conflicts # {} /\ onConflict = "error",
    warned |-> IF onConflict = "warn" THEN conflicts ELSE {} ]

\* detectConflicts(flat, targetFiles, opts, logger, scan)
detectConflicts(flat, opts, files, order) ==
  ConflictOutcome(ConflictKeys(flat, PerTargetMaps(opts, files, order)),
                  opts.onConflict)

NoConflict == [thrown |-> FALSE, warned |-> {}]

EmptyState ==
  [flatOverrides |-> EmptyMap, namespacedOverrides |-> EmptyMap,
   targetFiles |-> EmptyMap, nsBehind |-> 0]

NoIndex == [flat |-> EmptyMap, namespaced |-> EmptyMap]

\* unlock from the conflict check on: the throw, or the Resolver State
UnlockChecked(check, targetFiles, fileOverrides, scanned) ==
  IF check.thrown
  THEN [status |-> "thrown", state |-> EmptyState, warned |-> {}, index |-> scanned,
        inertWarnings |-> 0]
  ELSE [status |-> "active",
        state |-> [flatOverrides |-> fileOverrides,
                   namespacedOverrides |-> scanned.namespaced,
                   targetFiles |-> targetFiles,
                   nsBehind |-> 0],
        warned |-> check.warned,
        index |-> scanned,
        inertWarnings |-> 0]

\* unlock from the filtering of the flat overrides on
UnlockFiltered(opts, files, order, targetFiles, fileOverrides, scanned) ==
  UnlockChecked(IF Len(opts.targets) > 1 /\ DOMAIN fileOverrides # {}
                THEN detectConflicts(fileOverrides, opts, files, order)
                ELSE NoConflict,
                targetFiles, fileOverrides, scanned)

\* unlock once the targets and the override directories are scanned
UnlockScanned(opts, files, order, targetFiles, scanned) ==
  UnlockFiltered(opts, files, order, targetFiles,
                 FilterFlat(scanned.flat, targetFiles), scanned)

\* unlock(userOptions) after resolveOptions: the plugin and its Resolver State
unlock(opts, files, order) ==
  IF Len(opts.targets) = 0
  THEN [status |-> "inert", state |-> EmptyState, warned |-> {}, index |-> NoIndex,
        inertWarnings |-> 1]
  ELSE UnlockScanned(opts, files, order, scanAllTargets(opts, files, order),
                     scanOverrides(opts, files, order))

(***************************************************************************)
(* Host module graph: lookup by file, invalidate a node, list importers.   *)
(* A file has at most one module node, named by the file.                  *)
(***************************************************************************)

\* moduleGraph.getModulesByFile(file)
getModulesByFile(graph, file) == IF file \in graph.mods THEN {file} ELSE {}

\* The importers of a module in the order the host lists them
ImportersSeq(graph, m) == AscSeq(graph.importers[m])

RECURSIVE ConcatImporters(_, _)
ConcatImporters(graph, mods) ==
  IF mods = <<>> THEN <<>>
  ELSE ImportersSeq(graph, mods[1]) \o ConcatImporters(graph, Tail(mods))

\* "BFS invalidate all ancestors": the while loop over the queue; the result
\* is the set seen, every member of which was invalidated once
RECURSIVE BfsLoop(_, _, _)
BfsLoop(graph, queue, seen) ==
  IF queue = <<>> THEN seen
  ELSE IF Head(queue) \in seen THEN BfsLoop(graph, Tail(queue), seen)
  ELSE BfsLoop(graph, Tail(queue) \o ImportersSeq(graph, Head(queue)),
               seen \cup {Head(queue)})

Ancestors(graph, roots) == BfsLoop(graph, ConcatImporters(graph, AscSeq(roots)), {})

\* if (roots.size > 0): the roots and their ancestors are invalidated
InvalidateRoots(graph, roots) ==
  IF roots # {} THEN roots \cup Ancestors(graph, roots) ELSE {}

\* "Original target file's module" of invalidateForKey
TargetMods(key, st, graph) ==
  IF MapHas(st.targetFiles, key)
  THEN getModulesByFile(graph, st.targetFiles[key].filePath)
  ELSE {}

\* "Override file's module (old for DELETE, new for CREATE)"
OverrideMods(overridePath, graph) ==
  IF overridePath # NULL THEN getModulesByFile(graph, overridePath) ELSE {}

\* invalidateForKey: the modules on which invalidateModule is called
invalidateForKey(key, isNowOverride, oldOverrides, st, graph) ==
  InvalidateRoots(graph,
    TargetMods(key, st, graph) \cup
    OverrideMods(IF isNowOverride THEN MapGet(st.flatOverrides, key)
                 ELSE MapGet(oldOverrides, key), graph))

\* patch.target.test(path): the pattern is an anchored suffix, /<suffix>$/
PatchTest(patch, str) == endsWith(str, patch.target)

\* invalidatePatchTarget(patch, server, logger)
invalidatePatchTarget(patch, graph) ==
  InvalidateRoots(graph, { m \in graph.mods : PatchTest(patch, PathStr(m)) })

CONFIG_EXTENSIONS ==
  << <<".","t","s","x">>, <<".","t","s">>, <<".","j","s","x">>, <<".","j","s">> >>

\* path.resolve(dir, `${basename}${ext}`)
ConfigCandidate(configFile, overrideDirs, de) ==
  overrideDirs[de[1]] \o << configFile \o CONFIG_EXTENSIONS[de[2]] >>

\* The existing candidate the two loops reach last
LastCandidate(configFile, overrideDirs, hits) ==
  IF hits = {} THEN NULL
  ELSE ConfigCandidate(configFile, overrideDirs,
         CHOOSE h \in hits :
           \A g \in hits : g[1] < h[1] \/ (g[1] = h[1] /\ g[2] <= h[2]))

\* The first existing candidate in the order of the two loops
FirstCandidate(configFile, overrideDirs, hits) ==
  IF hits = {} THEN NULL
  ELSE ConfigCandidate(configFile, overrideDirs,
         CHOOSE h \in hits :
           \A g \in hits : h[1] < g[1] \/ (h[1] = g[1] /\ h[2] <= g[2]))

\* findConfigFile(basename, overrideDirs)
findConfigFile(configFile, overrideDirs, files) ==
  FirstCandidate(configFile, overrideDirs,
    { de \in (1..Len(overrideDirs)) \X (1..Len(CONFIG_EXTENSIONS)) :
        ConfigCandidate(configFile, overrideDirs, de) \in files })

\* opts.overrideDirs.some(dir => normFile.startsWith(normalizePath(dir) + "/"))
isOverrideFile(filePath, opts) ==
  \E d \in 1..Len(opts.overrideDirs) : IsUnder(filePath, opts.overrideDirs[d])

\* The guards of handleStructuralChange before it touches the timer
QualifiesStructural(filePath, opts) ==
  /\ extname(basename(filePath)) \in opts.extensionSet
  /\ isOverrideFile(filePath, opts)

\* clearTimeout(debounceTimer) left out
ClearTimeoutNoop(handle, live) == live

\* clearTimeout(debounceTimer): cancels the timer of the handle if still live
ClearTimeout(handle, live) == IF handle /\ live > 0 THEN live - 1 ELSE live

\* The pending timeout is cancelled and none is scheduled in its place
RescheduleDropped(handle, live) == ClearTimeout(handle, live)

\* if (debounceTimer) clearTimeout(debounceTimer); debounceTimer = setTimeout(...)
Reschedule(handle, live) == ClearTimeout(handle, live) + 1

\* Only the flat mapping is replaced.  nsBehind counts the replacements of the
\* flat mapping that the namespaced mapping missed.
AssignFlatOnly(st, fileOverrides, namespaced) ==
  [st EXCEPT !.flatOverrides = fileOverrides, !.nsBehind = @ + 1]

\* The new entries are written into the old maps, which keep their other keys
AssignMerge(st, fileOverrides, namespaced) ==
  [st EXCEPT !.flatOverrides = fileOverrides @@ @,
             !.namespacedOverrides = namespaced @@ @]

\* The Target File Index is cut down to the keys that have a flat override
AssignPruned(st, fileOverrides, namespaced) ==
  [st EXCEPT !.flatOverrides = fileOverrides, !.namespacedOverrides = namespaced,
             !.targetFiles = [k \in (DOMAIN @) \cap (DOMAIN fileOverrides) |-> @[k]]]

\* Object.assign(state, {flatOverrides, namespacedOverrides})
AssignState(st, fileOverrides, namespaced) ==
  [st EXCEPT !.flatOverrides = fileOverrides, !.namespacedOverrides = namespaced]

\* Every key of the two maps, changed or not
ChangedKeysAll(old, new) == (DOMAIN old) \cup (DOMAIN new)

\* The keys the diff loops do not skip
ChangedKeys(old, new) ==
  { k \in (DOMAIN old) \cup (DOMAIN new) :
      ~(MapHas(old, k) = MapHas(new, k) /\ MapGet(old, k) = MapGet(new, k)) }

NsMap(namespaced, ns) == IF MapHas(namespaced, ns) THEN namespaced[ns] ELSE EmptyMap

\* The (namespace, key) pairs the namespaced diff loop does not skip
NsChangedKeys(oldNamespaced, namespaced) ==
  UNION { { <<ns, k>> : k \in ChangedKeys(NsMap(oldNamespaced, ns),
                                          NsMap(namespaced, ns)) }
          : ns \in (DOMAIN oldNamespaced) \cup (DOMAIN namespaced) }

\* hasChanges set by the flat diff loop only
HasChangesFlatOnly(flatChanged, nsChanged) == flatChanged # {}

\* hasChanges at the end of the two diff loops
HasChanges(flatChanged, nsChanged) == flatChanged # {} \/ nsChanged # {}

\* The two diff loops of the debounced callback and its single full-reload
DiffLoops(oldFlat, oldNamespaced, fileOverrides, namespaced, newState, graph, flatChanged, nsChanged) ==
  [state |-> newState,
   invalidated |->
     UNION { invalidateForKey(k, MapHas(fileOverrides, k), oldFlat, newState, graph)
             : k \in flatChanged }
     \cup
     UNION { invalidateForKey(p[2], MapHas(NsMap(namespaced, p[1]), p[2]),
                              NsMap(oldNamespaced, p[1]), newState, graph)
             : p \in nsChanged },
   changed |-> Cardinality(flatChanged) + Cardinality(nsChanged),
   reloads |-> IF HasChanges(flatChanged, nsChanged) THEN 1 ELSE 0]

\* The debounced callback from the swap on
SwapAndDiff(st, fileOverrides, scanned, graph) ==
  [index |-> scanned] @@
  DiffLoops(st.flatOverrides, st.namespacedOverrides, fileOverrides,
            scanned.namespaced,
            AssignState(st, fileOverrides, scanned.namespaced), graph,
            ChangedKeys(st.flatOverrides, fileOverrides),
            NsChangedKeys(st.namespacedOverrides, scanned.namespaced))

RecomputeScanned(st, scanned, graph) ==
  SwapAndDiff(st, FilterFlat(scanned.flat, st.targetFiles), scanned, graph)

\* The debounced callback of handleStructuralChange
Recompute(st, opts, files, order, graph) ==
  RecomputeScanned(st, scanOverrides(opts, files, order), graph)

NoPatchEffect(cfgPath) == [configPath |-> cfgPath, invalidated |-> {}, reloads |-> 0]

\* The body of the loop of handlePatchConfigStructural for declaration i
PatchStep(acc, i, patch, newPath, filePath, graph) ==
  IF stripExtension(basename(filePath)) # patch.configFile
     \/ newPath = acc.configPath[i]
  THEN acc
  ELSE [configPath |-> [acc.configPath EXCEPT ![i] = newPath],
        invalidated |-> acc.invalidated \cup invalidatePatchTarget(patch, graph),
        reloads |-> acc.reloads + 1]

\* The loop of handlePatchConfigStructural over the declarations
RECURSIVE PatchStructFold(_, _, _, _, _, _)
PatchStructFold(i, filePath, opts, files, graph, acc) ==
  IF i > Len(opts.patches) THEN acc
  ELSE PatchStructFold(i + 1, filePath, opts, files, graph,
         PatchStep(acc, i, opts.patches[i],
                   findConfigFile(opts.patches[i].configFile, opts.overrideDirs, files),
                   filePath, graph))

\* handlePatchConfigStructural(filePath), registered when there are patches
handlePatchConfigStructural(filePath, opts, cfgPath, files, graph) ==
  IF \/ Len(opts.patches) = 0
     \/ stripExtension(basename(filePath)) = <<>>
     \/ ~isOverrideFile(filePath, opts)
  THEN NoPatchEffect(cfgPath)
  ELSE PatchStructFold(1, filePath, opts, files, graph, NoPatchEffect(cfgPath))

NoEffect == [invalidated |-> {}, reloads |-> 0]

\* The first declaration bound to the file is invalidated, then `return`
PatchEditAt(i, opts, graph) ==
  IF i = 0 THEN NoEffect
  ELSE [invalidated |-> invalidatePatchTarget(opts.patches[i], graph), reloads |-> 1]

\* handlePatchConfigContentEdit(filePath), registered when there are patches
handlePatchConfigContentEdit(filePath, opts, cfgPath, graph) ==
  PatchEditAt(FirstOf({ i \in 1..Len(opts.patches) :
                          cfgPath[i] # NULL /\ cfgPath[i] = filePath }),
              opts, graph)

\* "Load hook case: invalidate the original module and reload"
ChangeOrigMods(origMods) ==
  IF origMods = {} THEN NoEffect ELSE [invalidated |-> origMods, reloads |-> 1]

\* The host's record of the edited file is not looked at
ChangeUntracked(bn, filePath, st, graph) ==
  IF \/ bn = <<>>
     \/ ~(\/ MapHas(st.flatOverrides, bn)
          \/ \E ns \in DOMAIN st.namespacedOverrides :
               MapHas(st.namespacedOverrides[ns], bn))
     \/ ~MapHas(st.targetFiles, bn)
  THEN NoEffect
  ELSE ChangeOrigMods(getModulesByFile(graph, st.targetFiles[bn].filePath))

\* The "change" listener from the computation of the basename on
ChangeOfBasename(bn, filePath, st, graph) ==
  IF \/ bn = <<>>
     \/ ~(\/ MapHas(st.flatOverrides, bn)
          \/ \E ns \in DOMAIN st.namespacedOverrides :
               MapHas(st.namespacedOverrides[ns], bn))
     \/ getModulesByFile(graph, filePath) # {}
     \/ ~MapHas(st.targetFiles, bn)
  THEN NoEffect
  ELSE ChangeOrigMods(getModulesByFile(graph, st.targetFiles[bn].filePath))

\* The "change" listener for content edits of override files
handleOverrideChange(filePath, st, opts, graph) ==
  IF \/ extname(basename(filePath)) \notin opts.extensionSet
     \/ ~isOverrideFile(filePath, opts)
  THEN NoEffect
  ELSE ChangeOfBasename(stripExtension(basename(filePath)), filePath, st, graph)

(***************************************************************************)
(* The hooks resolveId and load                                            *)
(***************************************************************************)

\* The first character of a virtual module id, "\0"
NUL == "NUL"

\* source === target.package || source.startsWith(target.package + "/")
NamesPackage(source, target) ==
  source = target.package \/ startsWith(source, target.package \o <<"/">>)

\* The first target from index `from` on whose package the specifier names, 0 if none
NextNamedTarget(source, opts, from) ==
  FirstOf({ t \in from..Len(opts.targets) : NamesPackage(source, opts.targets[t]) })

\* if (basename && basename !== "index")
IsKey(bn) == bn # <<>> /\ bn # sIndex

\* The flat mapping looked up before the namespaced one
OverrideFlatFirst(bn, package, st) ==
  IF IsKey(bn)
  THEN IF MapHas(st.flatOverrides, bn) THEN st.flatOverrides[bn]
       ELSE IF MapHas(NsMap(st.namespacedOverrides, package), bn)
            THEN st.namespacedOverrides[package][bn]
       ELSE NULL
  ELSE NULL

\* "1. File-level override" of resolveId: namespaced first, then flat
OverrideLookup(bn, package, st) ==
  IF IsKey(bn)
  THEN IF MapHas(NsMap(st.namespacedOverrides, package), bn)
       THEN st.namespacedOverrides[package][bn]
       ELSE IF MapHas(st.flatOverrides, bn) THEN st.flatOverrides[bn]
       ELSE NULL
  ELSE NULL

\* resolveId returns ret
Returned(ret, owner, consulted) ==
  [ret |-> ret, suspended |-> FALSE, owner |-> owner, at |-> 0,
   consulted |-> consulted]

\* resolveId is suspended at `await this.resolve` in the turn of target `at`
Suspended(owner, at, consulted) ==
  [ret |-> NULL, suspended |-> TRUE, owner |-> owner, at |-> at,
   consulted |-> consulted]

\* The entry redirect attempted before the override found by the lookup
ResolveEntryFirst(hit, t, bn, source, opts) ==
  IF NamesPackage(source, opts.targets[t]) THEN Suspended(t, t, IsKey(bn))
  ELSE Returned(hit, t, IsKey(bn))

\* resolveId for an importer inside target t, from the override lookup on
ResolveHit(hit, t, bn, source, opts) ==
  IF hit # NULL THEN Returned(hit, t, TRUE)
  ELSE IF NamesPackage(source, opts.targets[t]) THEN Suspended(t, t, IsKey(bn))
  ELSE Returned(NULL, t, IsKey(bn))

ResolveInTarget(t, bn, source, st, opts) ==
  ResolveHit(OverrideLookup(bn, opts.targets[t].package, st), t, bn, source, opts)

\* "Importer is NOT in a target package - entry redirect only"
ResolveOutside(n) == IF n > 0 THEN Suspended(0, n, FALSE) ELSE Returned(NULL, 0, FALSE)

ResolveFrom(t, source, st, opts) ==
  IF t > 0
  THEN ResolveInTarget(t, stripExtension(StrBasename(source)), source, st, opts)
  ELSE ResolveOutside(NextNamedTarget(source, opts, 1))

\* resolveId(source, importer) up to its first await: the value returned, or
\* the target at whose this.resolve call it is suspended
resolveIdStart(source, importer, st, opts) ==
  IF startsWith(source, <<NUL>>) \/ importer = NULL \/ startsWith(importer, <<NUL>>)
  THEN Returned(NULL, 0, FALSE)
  ELSE ResolveFrom(findImporterTarget(importer, opts), source, st, opts)

ResumeWith(redirect, n) ==
  IF redirect # NULL THEN [ret |-> redirect, suspended |-> FALSE, at |-> 0]
  ELSE IF n > 0 THEN [ret |-> NULL, suspended |-> TRUE, at |-> n]
  ELSE [ret |-> NULL, suspended |-> FALSE, at |-> 0]

\* resolveId from the return of this.resolve on: `resolved` is the host's answer
resolveIdResume(call, resolved, opts, files) ==
  ResumeWith(IF resolved # NULL THEN resolveEntryRedirect(resolved, opts, files)
             ELSE NULL,
             IF call.owner > 0 THEN 0
             ELSE NextNamedTarget(call.source, opts, call.at + 1))

NoCode == [kind |-> "null", path |-> NULL, patch |-> 0]

\* nsOverrides?.get(basename) ?? state.flatOverrides.get(basename)
LoadOverridePath(bn, package, st) ==
  IF MapHas(NsMap(st.namespacedOverrides, package), bn)
  THEN st.namespacedOverrides[package][bn]
  ELSE MapGet(st.flatOverrides, bn)

\* "2. Patches": the first declaration that matches and has a config on disk
LoadPatch(id, cfgPath, files, first) ==
  IF first = 0 THEN NoCode
  ELSE IF ToPath(id) \notin files THEN NoCode
  ELSE [kind |-> "patch", path |-> cfgPath[first], patch |-> first]

\* load from the lookup of the override path on
LoadOverride(overridePath, id, opts, cfgPath, files) ==
  IF overridePath # NULL /\ overridePath \in files
  THEN [kind |-> "shim", path |-> overridePath, patch |-> 0]
  ELSE LoadPatch(id, cfgPath, files,
                 FirstOf({ i \in 1..Len(opts.patches) :
                             /\ PatchTest(opts.patches[i], id)
                             /\ cfgPath[i] # NULL
                             /\ cfgPath[i] \in files }))

LoadIn(t, bn, id, st, opts, cfgPath, files) ==
  IF t = 0 THEN NoCode
  ELSE IF ~IsKey(bn) THEN NoCode
  ELSE LoadOverride(LoadOverridePath(bn, opts.targets[t].package, st),
                    id, opts, cfgPath, files)

\* load(id): a re-export shim of an override, patched code, or null
load(id, st, opts, cfgPath, files) ==
  LoadIn(findImporterTarget(id, opts), stripExtension(StrBasename(id)),
         id, st, opts, cfgPath, files)

(***************************************************************************)
(* The installation the model runs on                                      *)
(***************************************************************************)

sTs == <<".","t","s">>

\* Override roots /o and /p and the files that may appear under them
dirO == << <<"o">> >>
dirP == << <<"p">> >>

fB == dirO \o << <<"B">> \o sTs >>
fC == dirO \o << <<"C">> \o sTs >>
fNsB == dirO \o << <<"@","a">>, <<"u">>, <<"B">> \o sTs >>
fBIndex == dirO \o << <<"B">>, sIndex \o sTs >>
fSkipB == dirO \o << <<"_","x">>, <<"B">> \o sTs >>
fCfg == dirO \o << <<"m">> \o sTs >>
pB == dirP \o << <<"B">> \o sTs >>

OverrideUniverse == { fB, fNsB, fBIndex, fSkipB, fCfg }

\* Installed packages /n/@a/u and /n/@a/d with their source trees
pkgU == << <<"n">>, <<"@","a">>, <<"u">> >>
pkgD == << <<"n">>, <<"@","a">>, <<"d">> >>
srcU == pkgU \o << <<"s","r","c">> >>
srcD == pkgD \o << <<"s","r","c">> >>

uA == srcU \o << <<"A">> \o sTs >>
uB == srcU \o << <<"B">> \o sTs >>
dB == srcD \o << <<"B">> \o sTs >>
dC == srcD \o << <<"C">> \o sTs >>
vB == << <<"n">>, <<"v">>, <<"s","r","c">>, <<"B">> \o sTs >>

TargetDisk == { uA, uB, dB, dC, vB }

nameU == <<"@","a","/","u">>
nameD == <<"@","a","/","d">>

TargetU == [package |-> nameU, srcPath |-> srcU, entryRedirect |-> NoEntryRedirect]
TargetD == [package |-> nameD, srcPath |-> srcD, entryRedirect |-> NoEntryRedirect]

keyA == <<"A">>
keyB == <<"B">>
keyC == <<"C">>

\* The patch declaration: target pattern /\/A\.ts$/, config file "m"
PatchA == [target |-> <<"/","A">> \o sTs, configFile |-> <<"m">>]

\* unlock({targets: ["@a/u", "@a/d"], overrides: "/o", onConflict: "warn",
\*         patches: [PatchA]}) after resolveOptions
MainOpts ==
  [targets |-> << TargetU, TargetD >>,
   overrideDirs |-> << dirO >>,
   match |-> "basename",
   onConflict |-> "warn",
   extensionSet |-> DEFAULT_EXTENSIONS,
   patches |-> << PatchA >>]

\* The options plugin creation is tried with
CreateOpts ==
  { [MainOpts EXCEPT !.targets = ts, !.overrideDirs = ds, !.onConflict = oc] :
      ts \in { <<>>, << TargetU >>, << TargetU, TargetD >>, << TargetD, TargetU >> },
      ds \in { << dirO >>, << dirO, dirP >> },
      oc \in { "error", "warn", "first" } }

CreateUniverse == { fB, fC, fNsB, fBIndex, pB }

\* A file of the application, outside every target
appE == << <<"w">>, <<"e">> \o sTs >>

\* Host module graphs: A imports B in @a/u; the override of B is either served
\* by the load shim (no module of its own) or tracked as a module
GraphShim == [mods |-> {uA, uB}, importers |-> (uA :> {} @@ uB :> {uA})]
GraphTracked ==
  [mods |-> {uA, uB, dB, fB},
   importers |-> (uA :> {} @@ uB :> {uA} @@ dB :> {} @@ fB :> {uA})]
GraphCycle ==
  [mods |-> {uA, uB, dB}, importers |-> (uA :> {uB} @@ uB :> {uA} @@ dB :> {uB})]

MainGraphs == { GraphShim, GraphTracked, GraphCycle }

\* Specifiers and importers of the resolveId requests, ids of the load requests
srcRelB == <<".","/","B">>
srcRelIndex == <<".","/","i","n","d","e","x">>
srcVirtualB == <<NUL,"v","/","B">>
srcRelC == <<".","/","C">>

Sources == { srcRelB, srcRelIndex, nameU, srcVirtualB }
Importers == { PathStr(uA), PathStr(dC), PathStr(appE), NULL }
LoadIds == { PathStr(uB), PathStr(dB), PathStr(uA), PathStr(appE) }

\* What the host's this.resolve may answer
distU == PathStr(pkgU \o << <<"d","i","s","t">>, <<"a","p","p",".","m","j","s">> >>)
HostAnswers == { NULL, distU }

\* Package v has no scope; it is installed at /n/v
pkgV == << <<"n">>, <<"v">> >>
srcV == pkgV \o << <<"s","r","c">> >>
nameV == <<"v">>
TargetV == [package |-> nameV, srcPath |-> srcV, entryRedirect |-> NoEntryRedirect]

sCjs == <<".","c","j","s">>

\* Override files of the scans: index files one and two directories deep, one
\* with an extension the user added, files below a package's name, and files
\* with the marker _ in a directory or in their own name
fDeepIndex == dirO \o << <<"C">>, <<"B">>, sIndex \o sTs >>
fIndexCjs == dirO \o << <<"C">>, sIndex \o sCjs >>
fVB == dirO \o << <<"v">>, <<"B">> \o sTs >>
fSkipDeep == dirO \o << <<"C">>, <<"_","x">>, <<"B">> \o sTs >>
fSkipName == dirO \o << <<"_","B">> \o sTs >>

ScanUniverse == { fB, fBIndex, fDeepIndex, fIndexCjs, fNsB, fVB, fSkipDeep, fSkipName }

\* unlock({targets, overrides: "/o", match, extensions, onConflict: "warn"})
ScanOpts ==
  { [MainOpts EXCEPT !.targets = ts, !.match = m, !.extensionSet = es] :
      ts \in { << TargetU, TargetD >>, << TargetU, TargetV >> },
      m \in { "basename", "path" },
      es \in { DEFAULT_EXTENSIONS, DEFAULT_EXTENSIONS \cup { sCjs } } }

\* The target of a package identifier once the package is located
TargetOf(package) ==
  CHOOSE T \in { TargetU, TargetD, TargetV } : T.package = package

\* The target is built although the package was not located
ResolveTargetAlways(input, located) == TargetOf(input)

\* resolveTarget(input): null when findPackageSrcPath does not locate the package
resolveTarget(input, located) == IF input \in located THEN TargetOf(input) ELSE NULL

\* if (resolved) targets.push(resolved)
PushIf(targets, resolved) == IF resolved # NULL THEN Append(targets, resolved) ELSE targets

\* The loop of resolveOptions over options.targets
RECURSIVE ResolveTargets(_, _, _, _)
ResolveTargets(inputs, located, i, targets) ==
  IF i > Len(inputs) THEN targets
  ELSE ResolveTargets(inputs, located, i + 1,
                      PushIf(targets, resolveTarget(inputs[i], located)))

\* resolveOptions({ targets: inputs, overrides: "/o", onConflict: "warn",
\* patches: [PatchA] }), the packages of `located` being those that can be found
resolveOptions(inputs, located) ==
  [MainOpts EXCEPT !.targets = ResolveTargets(inputs, located, 1, <<>>)]

\* The target lists the user may give and the packages that may be installed
UserTargets == { << nameU >>, << nameU, nameD >>, << nameD, nameU >> }
Installable == { nameU, nameD }

\* Package @a/w is linked from a workspace: its real location is /w/x
pkgW == << <<"w">>, <<"x">> >>
srcW == pkgW \o << <<"s","r","c">> >>
nameW == <<"@","a","/","w">>
TargetW == [package |-> nameW, srcPath |-> srcW, entryRedirect |-> NoEntryRedirect]

sDistAppFrom == <<"d","i","s","t","/","a","p","p",".","m","j","s">>
sSrcAppTo == <<"s","r","c","/","a","p","p",".","t","s","x">>

\* { package: "@a/u", entryRedirect: { from: "dist/app.mjs", to: "src/app.tsx" } }
TargetUx == [TargetU EXCEPT !.entryRedirect = [from |-> sDistAppFrom, to |-> sSrcAppTo]]

\* The built entry and the source entry of the package installed at pkgDir
DistAppOf(pkgDir) == pkgDir \o << <<"d","i","s","t">>, <<"a","p","p",".","m","j","s">> >>
SrcAppOf(pkgDir) == pkgDir \o << <<"s","r","c">>, <<"a","p","p",".","t","s","x">> >>

\* The source entries that may be on disk
EntryUniverse == { SrcAppOf(pkgU), SrcAppOf(pkgD), SrcAppOf(pkgW) }

\* The target lists the entry redirect is tried with
EntryOpts ==
  { [MainOpts EXCEPT !.targets = ts] :
      ts \in { << TargetU, TargetD >>, << TargetUx, TargetD >>, << TargetW, TargetU >> } }

EntrySources == { nameU, nameD, nameW }
EntryAnswers ==
  { NULL, PathStr(DistAppOf(pkgU)), PathStr(DistAppOf(pkgD)), PathStr(DistAppOf(pkgW)),
    PathStr(DistAppOf(pkgU)) \o <<"?","v">> }

(***************************************************************************)
(* State                                                                   *)
(***************************************************************************)

MaxBurst == 2
MaxCalls == 1

VARIABLES
  opts,           \* the resolved options
  disk,           \* the override files on disk
  phase,          \* "config" before unlock(), then "active", "thrown" or "inert"
  state,          \* the Resolver State
  index,          \* what the last scanOverrides returned
  configPath,     \* patch.configPath of each declaration
  debounceTimer,  \* whether the handle debounceTimer is set
  liveTimers,     \* the timeouts scheduled and neither fired nor cleared
  calls,          \* the resolveId calls suspended at this.resolve
  graph,          \* the host's module graph
  last,           \* what the last hook or handler did
  burst,          \* the structural events since the timer queue was last empty
  rt              \* the progress of an add, fire, unlink, fire round trip

vars == << opts, disk, phase, state, index, configPath, debounceTimer, liveTimers,
           calls, graph, last, burst, rt >>

Files == disk \cup TargetDisk

LastBase ==
  [op |-> "init", file |-> NULL, source |-> NULL, importer |-> NULL,
   ret |-> NULL, suspended |-> FALSE, consulted |-> FALSE, nsBehind |-> 0,
   swapped |-> FALSE, code |-> NoCode, invalidated |-> {}, changed |-> 0,
   reloads |-> 0, patchReloads |-> 0, warned |-> {}, resolved |-> NULL,
   contentInvalidated |-> {}, inertWarnings |-> 0]

NoBurst == [events |-> 0, recomputes |-> 0, reloads |-> 0, patchReloads |-> 0]

RtIdle == [stage |-> "idle", file |-> NULL, flat |-> EmptyMap, namespaced |-> EmptyMap]

\* resolveOptions: configPath: findConfigFile(p.configFile, overrideDirs)
InitialConfigPath(o, files) ==
  [i \in 1..Len(o.patches) |->
     findConfigFile(o.patches[i].configFile, o.overrideDirs, files)]

\* The plugin is created on any tree of the given override files and the dev
\* server is started
InitOn(universe, graphs) ==
  /\ opts = MainOpts
  /\ disk \in SUBSET universe
  /\ phase = "active"
  /\ \E order \in ReaddirOrders :
       \E u \in { unlock(opts, disk \cup TargetDisk, order) } :
         /\ u.status = "active"
         /\ state = u.state
         /\ index = u.index
  /\ configPath = InitialConfigPath(opts, disk \cup TargetDisk)
  /\ debounceTimer = FALSE
  /\ liveTimers = 0
  /\ calls = {}
  /\ graph \in graphs
  /\ last = LastBase
  /\ burst = NoBurst
  /\ rt = RtIdle

Init == InitOn(OverrideUniverse, MainGraphs)

\* The override files of the requests to the hooks
HookUniverse == { fB, fNsB, fCfg }

InitHooks == InitOn(HookUniverse, {GraphShim})

\* The plugin is created for one of the target lists, on any set of source
\* entries, and the dev server is started
InitEntry ==
  /\ opts \in EntryOpts
  /\ disk \in SUBSET EntryUniverse
  /\ phase = "active"
  /\ \E order \in ReaddirOrders :
       \E u \in { unlock(opts, disk \cup TargetDisk, order) } :
         /\ u.status = "active"
         /\ state = u.state
         /\ index = u.index
  /\ configPath = InitialConfigPath(opts, disk \cup TargetDisk)
  /\ debounceTimer = FALSE
  /\ liveTimers = 0
  /\ calls = {}
  /\ graph = GraphShim
  /\ last = LastBase
  /\ burst = NoBurst
  /\ rt = RtIdle

\* Before unlock() is called: the options are resolved from the user's target
\* list, some of the packages being installed.  The list and the installed
\* packages are remembered beside the resolved options.
InitOptions ==
  /\ \E inputs \in UserTargets, located \in SUBSET Installable :
       opts = resolveOptions(inputs, located)
              @@ [requested |-> inputs, located |-> located]
  /\ disk \in SUBSET { fB, fNsB, fC }
  /\ phase = "config"
  /\ state = EmptyState
  /\ index = NoIndex
  /\ configPath = InitialConfigPath(opts, disk \cup TargetDisk)
  /\ debounceTimer = FALSE
  /\ liveTimers = 0
  /\ calls = {}
  /\ graph = GraphShim
  /\ last = LastBase
  /\ burst = NoBurst
  /\ rt = RtIdle

\* Before unlock() is called, on the options and the trees of the scans
InitScan ==
  /\ opts \in ScanOpts
  /\ disk \in SUBSET ScanUniverse
  /\ phase = "config"
  /\ state = EmptyState
  /\ index = NoIndex
  /\ configPath = InitialConfigPath(opts, disk \cup TargetDisk)
  /\ debounceTimer = FALSE
  /\ liveTimers = 0
  /\ calls = {}
  /\ graph = GraphShim
  /\ last = LastBase
  /\ burst = NoBurst
  /\ rt = RtIdle

\* Before unlock() is called, on any options and any override tree
InitCreate ==
  /\ opts \in CreateOpts
  /\ disk \in SUBSET CreateUniverse
  /\ phase = "config"
  /\ state = EmptyState
  /\ index = NoIndex
  /\ configPath = InitialConfigPath(opts, disk \cup TargetDisk)
  /\ debounceTimer = FALSE
  /\ liveTimers = 0
  /\ calls = {}
  /\ graph = GraphShim
  /\ last = LastBase
  /\ burst = NoBurst
  /\ rt = RtIdle

(***************************************************************************)
(* Actions                                                                 *)
(***************************************************************************)

\* unlock(userOptions) is called: it throws, or returns an inert or an active plugin
Unlock ==
  /\ phase = "config"
  /\ \E order \in ReaddirOrders :
       \E u \in { unlock(opts, Files, order) } :
         /\ phase' = u.status
         /\ state' = u.state
         /\ index' = u.index
         /\ last' = [LastBase EXCEPT !.op = "unlock", !.warned = u.warned,
                       !.inertWarnings = u.inertWarnings]
  /\ UNCHANGED << opts, disk, configPath, debounceTimer, liveTimers, calls, graph,
                  burst, rt >>

\* The round trip a structural event starts, continues or breaks
RtEvent(kind, f, q) ==
  IF kind = "add" /\ q /\ liveTimers = 0
    THEN [stage |-> "added", file |-> f, flat |-> state.flatOverrides,
          namespaced |-> state.namespacedOverrides]
  ELSE IF kind = "unlink" /\ rt.stage = "addFired" /\ rt.file = f
    THEN [rt EXCEPT !.stage = "removed"]
  ELSE RtIdle

\* The watcher's "add" and "unlink" listeners on a file, the disk being disk2:
\* handleStructuralChange, then handlePatchConfigStructural
StructuralEvent(kind, f, disk2) ==
  \E q \in { QualifiesStructural(f, opts) } :
    \E pr \in { handlePatchConfigStructural(f, opts, configPath,
                                            disk2 \cup TargetDisk, graph) } :
      /\ phase = "active"
      /\ q => (liveTimers = 0 \/ burst.events < MaxBurst)
      /\ disk' = disk2
      /\ debounceTimer' = (q \/ debounceTimer)
      /\ liveTimers' = IF q THEN Reschedule(debounceTimer, liveTimers)
                       ELSE liveTimers
      /\ configPath' = pr.configPath
      /\ last' = [LastBase EXCEPT !.op = kind, !.file = f,
                    !.invalidated = pr.invalidated, !.reloads = pr.reloads,
                    !.patchReloads = pr.reloads]
      /\ burst' = IF ~q THEN burst
                  ELSE IF liveTimers = 0
                    THEN [NoBurst EXCEPT !.events = 1, !.patchReloads = pr.reloads]
                  ELSE [burst EXCEPT !.events = @ + 1, !.patchReloads = @ + pr.reloads]
      /\ rt' = RtEvent(kind, f, q)
      /\ UNCHANGED << opts, phase, state, index, calls, graph >>

\* A file is created under an override directory
FsAdd(f) == f \notin disk /\ StructuralEvent("add", f, disk \cup {f})

\* An override file is deleted
FsUnlink(f) == f \in disk /\ StructuralEvent("unlink", f, disk \ {f})

\* The content of a file is edited: the "change" listeners, the override
\* content handler and then handlePatchConfigContentEdit
FsChange(f) ==
  \E oc \in { handleOverrideChange(f, state, opts, graph) } :
    \E pc \in { IF Len(opts.patches) > 0
                THEN handlePatchConfigContentEdit(f, opts, configPath, graph)
                ELSE NoEffect } :
      /\ phase = "active"
      /\ f \in disk
      /\ last' = [LastBase EXCEPT !.op = "change", !.file = f,
                    !.invalidated = oc.invalidated \cup pc.invalidated,
                    !.contentInvalidated = oc.invalidated,
                    !.reloads = oc.reloads + pc.reloads,
                    !.patchReloads = pc.reloads]
      /\ UNCHANGED << opts, disk, phase, state, index, configPath, debounceTimer,
                      liveTimers, calls, graph, burst, rt >>

\* The debounce window elapses: the oldest live timeout fires
TimerFire ==
  /\ phase = "active"
  /\ liveTimers > 0
  /\ \E order \in ReaddirOrders :
       \E r \in { Recompute(state, opts, Files, order, graph) } :
         /\ state' = r.state
         /\ index' = r.index
         /\ last' = [LastBase EXCEPT !.op = "fire", !.invalidated = r.invalidated,
                       !.changed = r.changed, !.reloads = r.reloads]
         /\ burst' = [burst EXCEPT !.recomputes = @ + 1, !.reloads = @ + r.reloads]
  /\ liveTimers' = liveTimers - 1
  /\ calls' = { [c EXCEPT !.swapped = TRUE] : c \in calls }
  /\ rt' = IF rt.stage = "added" THEN [rt EXCEPT !.stage = "addFired"]
           ELSE IF rt.stage = "removed" THEN [rt EXCEPT !.stage = "done"]
           ELSE RtIdle
  /\ UNCHANGED << opts, disk, phase, configPath, debounceTimer, graph >>

\* The host calls resolveId; the call returns or suspends at this.resolve
ResolveId(source, importer) ==
  \E r \in { resolveIdStart(source, importer, state, opts) } :
    /\ phase = "active"
    /\ r.suspended => Cardinality(calls) < MaxCalls
    /\ calls' = IF r.suspended
                THEN calls \cup {[source |-> source, importer |-> importer,
                                  owner |-> r.owner, at |-> r.at,
                                  consulted |-> r.consulted,
                                  nsBehind |-> state.nsBehind,
                                  swapped |-> FALSE]}
                ELSE calls
    /\ last' = [LastBase EXCEPT !.op = "resolveId", !.source = source,
                  !.importer = importer, !.ret = r.ret,
                  !.suspended = r.suspended, !.consulted = r.consulted,
                  !.nsBehind = state.nsBehind]
    /\ UNCHANGED << opts, disk, phase, state, index, configPath, debounceTimer,
                    liveTimers, graph, burst, rt >>

\* this.resolve answers a suspended resolveId call
HostResolve(call, resolved) ==
  \E r \in { resolveIdResume(call, resolved, opts, Files) } :
    /\ phase = "active"
    /\ call \in calls
    /\ calls' = IF r.suspended THEN (calls \ {call}) \cup {[call EXCEPT !.at = r.at]}
                ELSE calls \ {call}
    /\ last' = [LastBase EXCEPT !.op = "resume", !.source = call.source,
                  !.importer = call.importer, !.ret = r.ret,
                  !.suspended = r.suspended, !.consulted = call.consulted,
                  !.nsBehind = call.nsBehind, !.swapped = call.swapped,
                  !.resolved = resolved]
    /\ UNCHANGED << opts, disk, phase, state, index, configPath, debounceTimer,
                    liveTimers, graph, burst, rt >>

\* The host calls load
Load(id) ==
  /\ phase = "active"
  /\ last' = [LastBase EXCEPT !.op = "load", !.file = ToPath(id),
                !.code = load(id, state, opts, configPath, Files),
                !.consulted = TRUE, !.nsBehind = state.nsBehind]
  /\ UNCHANGED << opts, disk, phase, state, index, configPath, debounceTimer,
                  liveTimers, calls, graph, burst, rt >>

\* The watcher: file system events and the debounce timer
Next ==
  \/ \E f \in OverrideUniverse : FsAdd(f)
  \/ \E f \in OverrideUniverse : FsUnlink(f)
  \/ \E f \in OverrideUniverse : FsChange(f)
  \/ TimerFire

Spec == Init /\ [][Next]_vars

\* The hooks, interleaved with structural changes and recomputations
NextHooks ==
  \/ \E f \in HookUniverse : FsAdd(f)
  \/ \E f \in HookUniverse : FsUnlink(f)
  \/ TimerFire
  \/ \E source \in Sources, importer \in Importers : ResolveId(source, importer)
  \/ \E call \in calls, resolved \in HostAnswers : HostResolve(call, resolved)
  \/ \E id \in LoadIds : Load(id)

SpecHooks == InitHooks /\ [][NextHooks]_vars

\* Plugin creation, and the hooks of the plugin it returns
NextCreate ==
  \/ Unlock
  \/ \E importer \in { PathStr(uA), PathStr(appE) } : ResolveId(srcRelB, importer)
  \/ \E id \in { PathStr(uB) } : Load(id)

SpecCreate == InitCreate /\ [][NextCreate]_vars

\* The scans of plugin creation and of the recomputations after files with
\* the marker _ are created and deleted
NextScan ==
  \/ Unlock
  \/ \E f \in { fSkipDeep, fSkipName } : FsAdd(f)
  \/ \E f \in { fSkipDeep, fSkipName } : FsUnlink(f)
  \/ TimerFire

SpecScan == InitScan /\ [][NextScan]_vars

\* Plugin creation from the user's target list, and the hooks of the plugin
NextOptions ==
  \/ Unlock
  \/ \E source \in { srcRelB, srcRelC }, importer \in { PathStr(uA), PathStr(dC) } :
       ResolveId(source, importer)
  \/ \E id \in { PathStr(uB), PathStr(dB) } : Load(id)

SpecOptions == InitOptions /\ [][NextOptions]_vars

\* Requests naming a target package, answered by the host
NextEntry ==
  \/ \E source \in EntrySources, importer \in { PathStr(uA), PathStr(appE) } :
       ResolveId(source, importer)
  \/ \E call \in calls, resolved \in EntryAnswers : HostResolve(call, resolved)

SpecEntry == InitEntry /\ [][NextEntry]_vars

(***************************************************************************)
(* Properties                                                              *)
(***************************************************************************)

\* The namespaced mapping of target t and the flat mapping both contain key
BothContain(t, key) ==
  /\ t > 0
  /\ MapHas(NsMap(state.namespacedOverrides, opts.targets[t].package), key)
  /\ MapHas(state.flatOverrides, key)

NsPath(t, key) == state.namespacedOverrides[opts.targets[t].package][key]

\* The target owning the importer of the last resolveId, the key of its specifier
ResolveOwner == findImporterTarget(last.importer, opts)
ResolveKey == stripExtension(StrBasename(last.source))

\* The target owning the file of the last load, the key of the file
LoadOwner == findImporterTarget(PathStr(last.file), opts)
LoadKey == stripExtension(basename(last.file))

ResolveCase == last.op = "resolveId" /\ BothContain(ResolveOwner, ResolveKey)
LoadCase == last.op = "load" /\ BothContain(LoadOwner, LoadKey)

ShimOf(path) == [kind |-> "shim", path |-> path, patch |-> 0]

\* C1 as stated: when the namespaced mapping of T and the flat mapping both
\* contain K, every resolveId from an importer owned by T with specifier
\* basename K returns the namespaced path, and every load of a T file with
\* basename K re-exports from the namespaced file.
C1_AsStated ==
  /\ ResolveCase => last.ret = NsPath(ResolveOwner, ResolveKey)
  /\ LoadCase => last.code = ShimOf(NsPath(LoadOwner, LoadKey))

\* C1: when the namespaced mapping of T and the flat mapping both contain K, a
\* resolveId from an importer owned by T whose specifier has basename K and is
\* not a virtual id returns the namespaced path without consulting the host;
\* load of a T file with basename K re-exports from the namespaced file when
\* that file is on disk, and otherwise serves no override shim at all, never
\* the flat one.
C1_NamespacePrecedence ==
  /\ (ResolveCase /\ ~startsWith(last.source, <<NUL>>)) =>
       (last.ret = NsPath(ResolveOwner, ResolveKey) /\ ~last.suspended)
  /\ LoadCase =>
       IF NsPath(LoadOwner, LoadKey) \in Files
       THEN last.code = ShimOf(NsPath(LoadOwner, LoadKey))
       ELSE last.code.kind # "shim"

C1_Witness ==
  /\ ResolveCase
  /\ last.ret = fNsB
  /\ state.flatOverrides[keyB] = fB

BurstOver == liveTimers = 0 /\ burst.events >= 1

ShimServedEdit(b) ==
  /\ last.op = "change"
  /\ last.file \notin graph.mods
  /\ findImporterTarget(PathStr(b), opts) > 0
  /\ load(PathStr(b), state, opts, configPath, Files) = ShimOf(last.file)

\* C4 as stated: a content edit of the override file served through the load
\* shim for B invalidates B's original target module and every module that
\* reaches B through importer edges.
C4_AsStated ==
  \A b \in graph.mods :
    ShimServedEdit(b) => ({b} \cup Ancestors(graph, {b})) \subseteq last.invalidated

FireStep == burst'.recomputes = burst.recomputes + 1

MappingsChange ==
  \/ state'.flatOverrides # state.flatOverrides
  \/ state'.namespacedOverrides # state.namespacedOverrides

\* C5: a debounced recomputation sends a full-reload message if and only if it
\* changes the flat mapping or some target's namespaced mapping (a key is
\* created, changed or deleted), and then sends exactly one.
C5_ReloadIffChanged ==
  [][FireStep => last'.reloads = (IF MappingsChange THEN 1 ELSE 0)]_vars

C5_Witness ==
  /\ last.op = "fire"
  /\ last.changed >= 2
  /\ last.reloads = 1

Silent == last'.invalidated = {} /\ last'.reloads = 0

\* The mappings a recomputation would build from the tree after the step are
\* the mappings of the state before it
RebuiltEqual ==
  \A order \in ReaddirOrders :
    \E s \in { scanOverrides(opts, disk' \cup TargetDisk, order) } :
      /\ FilterFlat(s.flat, state.targetFiles) = state.flatOverrides
      /\ s.namespaced = state.namespacedOverrides

\* C6 as stated: an add or unlink event after which the rebuilt mappings equal
\* the previous ones causes no invalidation and no full-reload message, in its
\* listeners and in its recomputation.
C6_AsStated ==
  [][/\ (disk' # disk /\ RebuiltEqual) => Silent
     /\ (FireStep /\ ~MappingsChange) => Silent]_vars

\* C6: a recomputation that rebuilds mappings equal to the previous ones causes
\* no invalidation and no full-reload message, and the add or unlink event
\* itself causes none unless it changes the config path bound to a patch
\* declaration.
C6_SilentNoOp ==
  [][/\ (disk' # disk /\ configPath' = configPath) => Silent
     /\ (FireStep /\ ~MappingsChange) => Silent]_vars

C6_Witness ==
  /\ last.op = "fire"
  /\ burst.events >= 1
  /\ last.changed = 0
  /\ last.reloads = 0
  /\ last.invalidated = {}
  /\ DOMAIN state.flatOverrides # {}

C8_ScanIdempotence ==
  (phase \in {"active", "thrown"} /\ liveTimers = 0) =>
    \A order \in ReaddirOrders : scanOverrides(opts, Files, order) = index

\* Key B is produced twice in root /o and once more in root /p
C8_Witness ==
  /\ phase = "active"
  /\ Len(opts.overrideDirs) = 2
  /\ {fB, fBIndex, pB} \subseteq disk
  /\ index.flat[keyB] = pB

\* A source file of target t produces key
ProducedIn(t, key) ==
  \E f \in TargetDisk :
    /\ IsUnder(f, opts.targets[t].srcPath)
    /\ getOverrideKey(f, opts.targets[t].srcPath, opts.match) = key

Producers(key) == { t \in 1..Len(opts.targets) : ProducedIn(t, key) }

\* The keys of the flat mapping produced by source files of more than one target
Conflicting == { k \in DOMAIN index.flat : Cardinality(Producers(k)) > 1 }

\* C9: plugin creation throws exactly when there is more than one target, a key
\* of the flat mapping is produced in more than one target and onConflict is
\* error; when it throws, no hook has run or is suspended.
C9_ErrorPolicy ==
  phase # "config" =>
    /\ phase = "thrown" <=>
         (Len(opts.targets) > 1 /\ opts.onConflict = "error" /\ Conflicting # {})
    /\ phase = "thrown" => (last.op = "unlock" /\ calls = {})

C9_Witness ==
  /\ phase = "thrown"
  /\ last.op = "unlock"
  /\ Len(opts.targets) = 2
  /\ keyB \in Conflicting

\* C10 as stated: under warn and first, with a flat override of a key K that
\* two targets produce, activation proceeds, the Target File Index entry of K
\* is the file of the first-configured target containing K, and a warning is
\* logged under warn and none under first.
C10_AsStated ==
  (phase # "config" /\ opts.onConflict \in {"warn", "first"}) =>
    \A k \in Conflicting :
      /\ phase = "active"
      /\ state.targetFiles[k].target = FirstOf(Producers(k))
      /\ last.op = "unlock" => (k \in last.warned <=> opts.onConflict = "warn")

\* The last step resumed a request naming target t with the host's answer
\* <package>/dist/app.mjs, <package> being where t is installed
EntryCase(t) ==
  /\ last.op = "resume"
  /\ NamesPackage(last.source, opts.targets[t])
  /\ last.resolved = PathStr(DistAppOf(dirname(opts.targets[t].srcPath)))

\* C11 as stated: a request naming a target package whose host-resolved path
\* is <package>/dist/app.mjs returns <package>/src/app.tsx when that file is on
\* disk and null when it is not.
C11_AsStated ==
  \A t \in 1..Len(opts.targets) :
    EntryCase(t) =>
      last.ret = IF SrcAppOf(dirname(opts.targets[t].srcPath)) \in Files
                 THEN SrcAppOf(dirname(opts.targets[t].srcPath))
                 ELSE NULL

\* A collected file named index.<ext> below a subdirectory of root d
IndexFileBelow(f, d) ==
  /\ Len(relative(d, f)) >= 2
  /\ extname(basename(f)) # <<>>
  /\ basename(f) = sIndex \o extname(basename(f))

\* The files scanOverrides collects below root d
CollectedBelow(d) == Range(collectFiles(d, opts.extensionSet, Files, "asc"))

\* C12 as stated: under the basename strategy every scanned file named
\* index.<ext> below a subdirectory foo, at any depth, gets the key foo and
\* never the key index.
C12_AsStated ==
  (phase = "active" /\ opts.match = "basename") =>
    \A i \in 1..Len(opts.overrideDirs) :
      \A f \in CollectedBelow(opts.overrideDirs[i]) :
        IndexFileBelow(f, opts.overrideDirs[i]) =>
          /\ getOverrideKey(f, opts.overrideDirs[i], opts.match) = basename(dirname(f))
          /\ getOverrideKey(f, opts.overrideDirs[i], opts.match) # sIndex

Range2(m) == { m[k] : k \in DOMAIN m }

\* The paths the flat and the namespaced mapping of the state and of the last
\* scan map keys to
MappedPaths ==
  Range2(state.flatOverrides) \cup Range2(index.flat)
  \cup UNION { Range2(state.namespacedOverrides[ns]) : ns \in DOMAIN state.namespacedOverrides }
  \cup UNION { Range2(index.namespaced[ns]) : ns \in DOMAIN index.namespaced }

\* A segment of the path of f relative to root d starts with the marker _
Marked(f, d) ==
  IsUnder(f, d) /\ \E i \in 1..Len(relative(d, f)) : relative(d, f)[i][1] = "_"

\* C13: at startup and after every recomputation, no file whose path relative
\* to its override root has a segment, directory or file name, starting with _
\* is in the flat or in a namespaced mapping, whatever the depth of the segment.
C13_SkipMarker ==
  \A f \in MappedPaths : \A i \in 1..Len(opts.overrideDirs) :
    ~Marked(f, opts.overrideDirs[i])

C13_Witness ==
  /\ last.op = "fire"
  /\ { fSkipDeep, fSkipName } \subseteq disk
  /\ MapHas(state.flatOverrides, keyB)
  /\ MapHas(state.namespacedOverrides, nameU)

\* The path of f relative to root d begins with the package identifier of
\* target t, and f is a file the scan keeps: collected, no marker, not an index
PackageFile(f, d, t) ==
  /\ f \in CollectedBelow(d)
  /\ startsWith(PathStr(relative(d, f)), <<"/">> \o opts.targets[t].package \o <<"/">>)
  /\ ~Marked(f, d)
  /\ stripExtension(basename(f)) # sIndex

\* C14 as stated: an override file whose path relative to the override root
\* begins with a configured target's package identifier, scoped (@scope/name)
\* or unscoped (name), is in the namespaced mapping under that identifier and
\* not in the flat mapping.
C14_AsStated ==
  phase = "active" =>
    \A f \in disk : \A i \in 1..Len(opts.overrideDirs) : \A t \in 1..Len(opts.targets) :
      PackageFile(f, opts.overrideDirs[i], t) =>
        /\ f \in Range2(NsMap(index.namespaced, opts.targets[t].package))
        /\ f \notin Range2(index.flat)

\* C15: in every Resolver State, at startup and after any sequence of
\* recomputations, every key of the flat mapping is a key of the Target File
\* Index.
C15_FlatKeysInTargets ==
  phase = "active" => (DOMAIN state.flatOverrides) \subseteq (DOMAIN state.targetFiles)

\* A recomputation scanned /o/m.ts, whose key m no target file produces
C15_Witness ==
  /\ last.op = "fire"
  /\ MapHas(index.flat, <<"m">>)
  /\ ~MapHas(state.flatOverrides, <<"m">>)
  /\ MapHas(state.flatOverrides, keyB)

\* C16: a content edit of an override file of which the host's graph already
\* has a module causes no invalidation and no full-reload message from the
\* override content handler.
C16_TrackedEditSilent ==
  (last.op = "change" /\ last.file \in graph.mods) =>
    /\ last.contentInvalidated = {}
    /\ last.reloads = last.patchReloads

\* The edited file is the tracked override of B, and the graph has the module
\* of the target file the Target File Index gives for B
C16_Witness ==
  /\ last.op = "change"
  /\ last.file = fB
  /\ fB \in graph.mods
  /\ MapHas(state.flatOverrides, keyB)
  /\ state.flatOverrides[keyB] = fB
  /\ state.targetFiles[keyB].filePath \in graph.mods

\* The packages of the resolved targets
ResolvedPackages == { opts.targets[t].package : t \in 1..Len(opts.targets) }

\* The source files of resolved target t all have their key in the Target
\* File Index
Processed(t) ==
  \A f \in TargetDisk :
    IsUnder(f, opts.targets[t].srcPath) =>
      MapHas(state.targetFiles, getOverrideKey(f, opts.targets[t].srcPath, opts.match))

\* C17: the resolved targets are the requested packages that can be located,
\* in the order given; when at least one is located plugin creation does not
\* stop and every located target is scanned; when none is located the plugin
\* is inert: one warning is logged and no resolveId or load hook ever runs.
C17_UnlocatedTargets ==
  /\ ResolvedPackages = Range(opts.requested) \cap opts.located
  /\ \A i, j \in 1..Len(opts.targets) :
       i < j => \E a, b \in 1..Len(opts.requested) :
                  /\ a < b
                  /\ opts.requested[a] = opts.targets[i].package
                  /\ opts.requested[b] = opts.targets[j].package
  /\ (phase # "config" /\ ResolvedPackages # {}) =>
       /\ phase = "active"
       /\ \A t \in 1..Len(opts.targets) : Processed(t)
       /\ last.op = "unlock" => last.inertWarnings = 0
  /\ (phase # "config" /\ ResolvedPackages = {}) =>
       /\ phase = "inert"
       /\ last.op = "unlock"
       /\ last.inertWarnings = 1
       /\ calls = {}

\* @a/u was asked for first and is not installed; @a/d is, and serves a load
C17_Witness ==
  /\ opts.requested = << nameU, nameD >>
  /\ opts.located = { nameD }
  /\ phase = "active"
  /\ last.op = "load"
  /\ last.code = ShimOf(fB)

\* C18 as stated: a resolveId request from an importer owned by target T is
\* redirected to the flat override of key K only if a source file of T
\* produces K.
C18_AsStated ==
  (/\ last.op = "resolveId"
   /\ ResolveOwner > 0
   /\ MapHas(state.flatOverrides, ResolveKey)
   /\ last.ret = state.flatOverrides[ResolveKey])
  => ProducedIn(ResolveOwner, ResolveKey)

\* The keys that old and new map differently
Differing(old, new) ==
  { k \in (DOMAIN old) \cup (DOMAIN new) : MapGet(old, k) # MapGet(new, k) }

\* The override module of a changed key: the new path, the old one if deleted
OverrideModule(k, old, new) == IF MapHas(new, k) THEN new[k] ELSE old[k]

\* The source files of the target with package ns that produce key k
OriginalsOf(ns, k) ==
  { f \in TargetDisk :
      \E t \in 1..Len(opts.targets) :
        /\ opts.targets[t].package = ns
        /\ IsUnder(f, opts.targets[t].srcPath)
        /\ getOverrideKey(f, opts.targets[t].srcPath, opts.match) = k }

\* C19 as stated: a recomputation invalidates, for every key created, changed
\* or deleted in the flat mapping or in a target's namespaced mapping, the
\* original target module of the key and the override module taken from the
\* mapping in which the key changed (old path when deleted, new path
\* otherwise), whenever the graph has modules for those files.  For a flat key
\* the original is the file the Target File Index gives; for a key of a
\* target's namespaced mapping it is that target's file.
C19_AsStated ==
  [][FireStep =>
      /\ \A k \in Differing(state.flatOverrides, state'.flatOverrides) :
           ({ state.targetFiles[k].filePath,
              OverrideModule(k, state.flatOverrides, state'.flatOverrides) }
            \cap graph.mods) \subseteq last'.invalidated
      /\ \A ns \in (DOMAIN state.namespacedOverrides) \cup (DOMAIN state'.namespacedOverrides) :
           \A k \in Differing(NsMap(state.namespacedOverrides, ns),
                              NsMap(state'.namespacedOverrides, ns)) :
             ((OriginalsOf(ns, k)
               \cup { OverrideModule(k, NsMap(state.namespacedOverrides, ns),
                                     NsMap(state'.namespacedOverrides, ns)) })
              \cap graph.mods) \subseteq last'.invalidated]_vars

\* The modules of S and every module that reaches one of them through
\* importer edges
RECURSIVE WithImporters(_)
WithImporters(S) ==
  IF UNION { graph.importers[m] : m \in S } \subseteq S THEN S
  ELSE WithImporters(S \cup UNION { graph.importers[m] : m \in S })

\* C20 as stated: for every changed key whose original or override module is
\* in the graph, the recomputation invalidates every transitive importer of
\* those modules.  The original and the override module of a key are those of
\* C19.
C20_AsStated ==
  [][FireStep =>
      /\ \A k \in Differing(state.flatOverrides, state'.flatOverrides) :
           WithImporters({ state.targetFiles[k].filePath,
                           OverrideModule(k, state.flatOverrides, state'.flatOverrides) }
                         \cap graph.mods) \subseteq last'.invalidated
      /\ \A ns \in (DOMAIN state.namespacedOverrides) \cup (DOMAIN state'.namespacedOverrides) :
           \A k \in Differing(NsMap(state.namespacedOverrides, ns),
                              NsMap(state'.namespacedOverrides, ns)) :
             WithImporters((OriginalsOf(ns, k)
                            \cup { OverrideModule(k, NsMap(state.namespacedOverrides, ns),
                                                  NsMap(state'.namespacedOverrides, ns)) })
                           \cap graph.mods) \subseteq last'.invalidated]_vars

(***************************************************************************)
(* The importer traversal, one iteration of its while loop at a time       *)
(***************************************************************************)

BfsMods == { uA, uB, dB }

\* What may import each module: the relations built from these hold
\* self-imports, cycles of two and of three modules, and modules reached twice
BfsMayImport == (uA :> {uA, uB, dB} @@ uB :> {uA, dB} @@ dB :> {uA})

BfsGraphs ==
  { [mods |-> BfsMods, importers |-> imp] :
      imp \in { f \in [BfsMods -> SUBSET BfsMods] :
                 \A m \in BfsMods : f[m] \subseteq BfsMayImport[m] } }

\* No more iterations than the pushes of the roots and of one visit per module
MaxIterations == 2 * Cardinality(BfsMods) * Cardinality(BfsMods)

BfsIdle ==
  [op |-> "none", roots |-> {}, queue |-> <<>>, seen |-> {},
   invalidations |-> [m \in BfsMods |-> 0], iterations |-> 0]

\* const seen = new Set(); const queue = []; the importers of the roots pushed
BfsEntered(op, g, roots) ==
  [BfsIdle EXCEPT !.op = op, !.roots = roots,
                  !.queue = ConcatImporters(g, AscSeq(roots))]

\* seen.add(mod); invalidateModule(mod); the importers of mod pushed
BfsVisit(g, b) ==
  [b EXCEPT !.queue = Tail(b.queue) \o ImportersSeq(g, Head(b.queue)),
            !.seen = @ \cup {Head(b.queue)},
            !.invalidations[Head(b.queue)] = @ + 1,
            !.iterations = @ + 1]

\* The module shifted is visited whether it was seen or not
BfsRevisit(g, b) == BfsVisit(g, b)

\* const mod = queue.shift(); if (seen.has(mod)) continue; ...
BfsIteration(g, b) ==
  IF Head(b.queue) \in b.seen
  THEN [b EXCEPT !.queue = Tail(b.queue), !.iterations = @ + 1]
  ELSE BfsVisit(g, b)

InitBfs ==
  /\ opts = MainOpts
  /\ disk = {}
  /\ phase = "active"
  /\ state = EmptyState
  /\ index = NoIndex
  /\ configPath = InitialConfigPath(opts, TargetDisk)
  /\ debounceTimer = FALSE
  /\ liveTimers = 0
  /\ calls = {}
  /\ graph \in BfsGraphs
  /\ last = BfsIdle
  /\ burst = NoBurst
  /\ rt = RtIdle

BfsFrame ==
  UNCHANGED << opts, disk, phase, state, index, configPath, debounceTimer,
               liveTimers, calls, graph, burst, rt >>

\* invalidateForKey reaches its traversal when it has roots
InvalidateForKeyEnter(roots) ==
  /\ last.op = "none"
  /\ roots # {}
  /\ last' = BfsEntered("invalidateForKey", graph, roots)
  /\ BfsFrame

\* invalidatePatchTarget reaches its traversal with the modules the pattern matched
InvalidatePatchTargetEnter(roots) ==
  /\ last.op = "none"
  /\ last' = BfsEntered("invalidatePatchTarget", graph, roots)
  /\ BfsFrame

\* One iteration on the state of the traversal
BfsShift ==
  /\ last.op # "none"
  /\ last.queue # <<>>
  /\ last.iterations < MaxIterations
  /\ last' = BfsIteration(graph, last)

\* while (queue.length > 0) { ... }
BfsIterate == BfsShift /\ BfsFrame

\* The loop is left and the function returns
BfsReturn ==
  /\ last.op # "none"
  /\ last.queue = <<>>
  /\ last' = BfsIdle
  /\ BfsFrame

NextBfs ==
  \/ \E roots \in SUBSET BfsMods : InvalidateForKeyEnter(roots)
  \/ \E roots \in SUBSET BfsMods : InvalidatePatchTargetEnter(roots)
  \/ BfsIterate
  \/ BfsReturn

\* The loop runs synchronously: an iteration that can be taken is taken
SpecBfs == InitBfs /\ [][NextBfs]_vars /\ WF_last(BfsShift)

BfsOnceEach == \A m \in BfsMods : last.invalidations[m] <= 1

BfsLeft == last.op # "none" /\ last.queue = <<>>

\* C21: from every entry, on every graph over the modules (cycles, self-imports
\* and roots that import themselves transitively included), the traversal
\* leaves its loop; no importer is invalidated by it more than once; and what
\* it has seen when it leaves is the set of the transitive importers of the roots
C21_TraversalTerminates ==
  /\ [](BfsOnceEach)
  /\ [](BfsLeft => last.seen = Ancestors(graph, last.roots))
  /\ ((last.op # "none") ~> BfsLeft)

\* A traversal that has ended on a cycle through its root
C21_Witness ==
  /\ BfsLeft
  /\ last.roots = {uB}
  /\ uB \in last.seen
  /\ uA \in last.seen
  /\ uB \in graph.importers[uA]
  /\ uB \notin graph.importers[uB]
  /\ last.iterations > Cardinality(last.seen)

\* The change listener's own reload of the last change event
ContentReloads == last.reloads - last.patchReloads

\* C22 as stated: a change event on a file that is a value of the flat mapping
\* or of a namespaced mapping, of which the graph has no module while it has
\* the original target module of the file's key, makes the change listener
\* invalidate that module and send a full reload.  For a flat key the original
\* is the file the Target File Index gives; for a key of a target's namespaced
\* mapping it is that target's file.
C22_AsStated ==
  (last.op = "change" /\ last.file \notin graph.mods) =>
    /\ \A k \in DOMAIN state.flatOverrides :
         (/\ state.flatOverrides[k] = last.file
          /\ state.targetFiles[k].filePath \in graph.mods)
         => /\ state.targetFiles[k].filePath \in last.contentInvalidated
            /\ ContentReloads = 1
    /\ \A ns \in DOMAIN state.namespacedOverrides :
         \A k \in DOMAIN state.namespacedOverrides[ns] :
           \A f \in OriginalsOf(ns, k) \cap graph.mods :
             state.namespacedOverrides[ns][k] = last.file
             => /\ f \in last.contentInvalidated
                /\ ContentReloads = 1

(***************************************************************************)
(* The debounce timer under a fair scheduler                               *)
(***************************************************************************)

\* /p/B.ts is outside the override directory: its events do not qualify
DebounceUniverse == { fB, fNsB, pB }

InitDebounce == InitOn(DebounceUniverse, {GraphShim})

NextDebounce ==
  \/ \E f \in DebounceUniverse : FsAdd(f)
  \/ \E f \in DebounceUniverse : FsUnlink(f)
  \/ TimerFire

\* The window of a live timeout elapses; the steps of TimerFire are these steps
TimerElapses == phase = "active" /\ liveTimers > 0 /\ liveTimers' = liveTimers - 1

\* A timeout that is not cancelled runs its callback when its window elapses
SpecDebounce == InitDebounce /\ [][NextDebounce]_vars /\ WF_liveTimers(TimerElapses)

\* The step is an add or unlink event that passes the guards of
\* handleStructuralChange
QualifyingStep ==
  /\ disk' # disk
  /\ QualifiesStructural(last'.file, opts)

\* The recomputation has just run and the mappings are the filtered scan of the
\* tree as it is
FiredFresh ==
  /\ last.op = "fire"
  /\ liveTimers = 0
  /\ \A order \in ReaddirOrders :
       \E s \in { scanOverrides(opts, Files, order) } :
         /\ state.flatOverrides = FilterFlat(s.flat, state.targetFiles)
         /\ state.namespacedOverrides = s.namespaced

\* C23: at most one debounced recomputation is pending at any time; a
\* qualifying add or unlink event leaves exactly one pending, the one it
\* scheduled; and whenever one is pending a recomputation eventually runs with
\* none pending after it, leaving the flat mapping equal to the filtered flat
\* scan and the namespaced mapping equal to the namespaced scan of the tree as
\* it is then.
C23_LastEventWins ==
  /\ [](liveTimers <= 1)
  /\ [][QualifyingStep => (liveTimers' = 1 /\ debounceTimer')]_vars
  /\ ((liveTimers > 0) ~> FiredFresh)

\* The recomputation ran once after two events inside one window and took up
\* the override they left
C23_Witness ==
  /\ FiredFresh
  /\ burst.events >= 2
  /\ burst.recomputes = 1
  /\ MapHas(state.flatOverrides, keyB)

(***************************************************************************)
(* The patch pipeline: three declarations, two override roots              *)
(***************************************************************************)

\* A second declaration for A.ts with its own config file, and one for every
\* .ts file that shares the config file of the first
PatchX == [target |-> <<"/","A">> \o sTs, configFile |-> <<"x">>]
PatchM == [target |-> sTs, configFile |-> <<"m">>]

pCfg == dirP \o << <<"m">> \o sTs >>
fX == dirO \o << <<"x">> \o sTs >>
fCB == dirO \o << <<"C">>, <<"B">> \o sTs >>

\* Source files of @a/u below src/C, and one that is not on disk
uCB == srcU \o << <<"C">>, <<"B">> \o sTs >>
uCIndex == srcU \o << <<"C">>, sIndex \o sTs >>
uGone == srcU \o << <<"Z">>, <<"A">> \o sTs >>

PatchOpts ==
  { [MainOpts EXCEPT !.overrideDirs = << dirO, dirP >>,
                     !.patches = << PatchA, PatchX, PatchM >>,
                     !.match = m] : m \in {"basename", "path"} }

PatchUniverse == { fCfg, pCfg, fX, fCB }

PatchLoadIds == { PathStr(uA), PathStr(uCB), PathStr(uCIndex), PathStr(uGone) }

InitPatch ==
  /\ opts \in PatchOpts
  /\ \E d \in SUBSET PatchUniverse : disk = d \cup { uCB, uCIndex }
  /\ phase = "active"
  /\ \E order \in ReaddirOrders :
       \E u \in { unlock(opts, disk \cup TargetDisk, order) } :
         /\ u.status = "active"
         /\ state = u.state
         /\ index = u.index
  /\ configPath = InitialConfigPath(opts, disk \cup TargetDisk)
  /\ debounceTimer = FALSE
  /\ liveTimers = 0
  /\ calls = {}
  /\ graph = GraphCycle
  /\ last = LastBase
  /\ burst = NoBurst
  /\ rt = RtIdle

NextPatch ==
  \/ \E f \in PatchUniverse : FsAdd(f)
  \/ \E f \in PatchUniverse : FsUnlink(f)
  \/ \E f \in PatchUniverse : FsChange(f)
  \/ TimerFire
  \/ \E id \in PatchLoadIds : Load(id)

SpecPatch == InitPatch /\ [][NextPatch]_vars

\* The declarations whose config-file basename the file f in an override
\* directory has
EventDecls(f) ==
  { i \in 1..Len(opts.patches) :
      /\ isOverrideFile(f, opts)
      /\ stripExtension(basename(f)) = opts.patches[i].configFile }

\* The candidates of declaration i that exist in override directory d
ExistingIn(i, d, files) ==
  { c \in files :
      \E e \in 1..Len(CONFIG_EXTENSIONS) :
        c = opts.overrideDirs[d] \o << opts.patches[i].configFile \o CONFIG_EXTENSIONS[e] >> }

\* The path bound to declaration i is a candidate that exists in the first
\* override directory that has one, null when no directory has one
BoundToFirst(i, cp, files) ==
  IF \A d \in 1..Len(opts.overrideDirs) : ExistingIn(i, d, files) = {}
  THEN cp[i] = NULL
  ELSE \E d \in 1..Len(opts.overrideDirs) :
         /\ cp[i] \in ExistingIn(i, d, files)
         /\ \A e \in 1..(d - 1) : ExistingIn(i, e, files) = {}

\* The modules of the graph the pattern of declaration i matches
PatchTargets(i) == { m \in graph.mods : PatchTest(opts.patches[i], PathStr(m)) }

\* C24: after an add or unlink event on a file in an override directory whose
\* extension-stripped basename is the config-file basename of a declaration,
\* the path bound to the declaration is the first existing candidate in
\* override-directory order, null when there is none; if the event changed the
\* bound path, the modules the declaration's pattern matches and their
\* transitive importers are invalidated and a full reload is sent; if it
\* changed the bound path of no such declaration, the event invalidates
\* nothing and sends no reload.
C24_ConfigRebinding ==
  /\ [](last.op \in {"add", "unlink"} =>
          \A i \in EventDecls(last.file) : BoundToFirst(i, configPath, Files))
  /\ [][disk' # disk =>
          /\ \A i \in EventDecls(last'.file) :
               configPath'[i] # configPath[i] =>
                 /\ WithImporters(PatchTargets(i)) \subseteq last'.invalidated
                 /\ last'.reloads >= 1
          /\ (\A i \in EventDecls(last'.file) : configPath'[i] = configPath[i]) =>
                 /\ last'.invalidated = {}
                 /\ last'.reloads = 0]_vars

\* /o/m.ts is added while /p/m.ts exists: the declarations of m are rebound
\* from the second override directory to the first
C24_Witness ==
  /\ last.op = "add"
  /\ last.file = fCfg
  /\ pCfg \in disk
  /\ configPath[1] = fCfg
  /\ configPath[3] = fCfg
  /\ uA \in last.invalidated
  /\ dB \in last.invalidated
  /\ last.reloads = 2

\* C25 as stated: on a change event for a file, every declaration whose bound
\* config path is that file, several declarations bound to one file included,
\* has the modules its pattern matches and their transitive importers
\* invalidated, and a full reload is sent.
C25_AsStated ==
  last.op = "change" =>
    \A i \in 1..Len(opts.patches) :
      (configPath[i] # NULL /\ configPath[i] = last.file) =>
        /\ WithImporters(PatchTargets(i)) \subseteq last.invalidated
        /\ last.reloads >= 1

\* The Override Key of source file f of target t under the match strategy
FileKey(t, f) == getOverrideKey(f, opts.targets[t].srcPath, opts.match)

\* The override files on disk that the mappings hold for file f of target t,
\* under the file's Override Key or under its extension-stripped basename
LiveOverrides(t, f) ==
  { p \in Files :
      \E k \in { FileKey(t, f), stripExtension(basename(f)) } :
        \/ p = MapGet(NsMap(state.namespacedOverrides, opts.targets[t].package), k)
        \/ p = MapGet(state.flatOverrides, k) }

\* The declarations that are not skipped for file f: the pattern matches and
\* the bound config path is set and on disk
Remaining(f) ==
  { i \in 1..Len(opts.patches) :
      /\ PatchTest(opts.patches[i], PathStr(f))
      /\ configPath[i] # NULL
      /\ configPath[i] \in Files }

PatchedBy(i) == [kind |-> "patch", path |-> configPath[i], patch |-> i]

\* C26 as stated: load of a target file with no live override serves the
\* transform of the first declaration, in declared order, whose pattern
\* matches and whose bound config path is set and on disk, and returns null
\* when there is none or the file cannot be read.
C26_AsStated ==
  (/\ last.op = "load"
   /\ LoadOwner > 0
   /\ LiveOverrides(LoadOwner, last.file) = {}) =>
    last.code = IF Remaining(last.file) = {} \/ last.file \notin Files
                THEN NoCode
                ELSE PatchedBy(FirstOf(Remaining(last.file)))

\* The override path the mappings hold for the Override Key of file f of
\* target t, the namespaced mapping of the target first
KeyOverride(t, f) == LoadOverridePath(FileKey(t, f), opts.targets[t].package, state)

\* C27 as stated: load of a file owned by a target whose key has an override,
\* namespaced or flat, that exists on disk returns the re-export shim of that
\* override and applies no patch declaration.
C27_AsStated ==
  (/\ last.op = "load"
   /\ LoadOwner > 0
   /\ KeyOverride(LoadOwner, last.file) \in Files) =>
    last.code = ShimOf(KeyOverride(LoadOwner, last.file))

\* C28: no step of the watcher (add, unlink and change events with their
\* patch-config listeners, and the debounced recomputation) changes the Target
\* File Index of the Resolver State, which stays the combined scan of the
\* targets' source trees made at initialization.
C28_TargetFilesFrozen ==
  /\ [][state'.targetFiles = state.targetFiles]_vars
  /\ [](\E order \in ReaddirOrders :
          state.targetFiles = scanAllTargets(opts, TargetDisk, order))

\* A recomputation has replaced the mappings, a key of the flat mapping
\* changed, and the index still has the keys of both targets
C28_Witness ==
  /\ last.op = "fire"
  /\ last.changed > 0
  /\ last.reloads = 1
  /\ DOMAIN state.targetFiles = { keyA, keyB, keyC }
  /\ DOMAIN state.flatOverrides # DOMAIN state.targetFiles

(***************************************************************************)
(* The guards of the listeners: extensions [".ts", ".tsx"]                 *)
(***************************************************************************)

sJs == <<".","j","s">>

\* unlock({..., extensions: [".ts", ".tsx"]})
GuardOpts == [MainOpts EXCEPT !.extensionSet = { sTs, <<".","t","s","x">> }]

\* /o/m.js has an extension outside the allowed set, /p/B.ts is outside the
\* override directory, /o/B.ts passes both guards
fCfgJs == dirO \o << <<"m">> \o sJs >>

GuardUniverse == { fCfgJs, pB, fB }

InitGuard ==
  /\ opts = GuardOpts
  /\ disk \in SUBSET GuardUniverse
  /\ phase = "active"
  /\ \E order \in ReaddirOrders :
       \E u \in { unlock(opts, disk \cup TargetDisk, order) } :
         /\ u.status = "active"
         /\ state = u.state
         /\ index = u.index
  /\ configPath = InitialConfigPath(opts, disk \cup TargetDisk)
  /\ debounceTimer = FALSE
  /\ liveTimers = 0
  /\ calls = {}
  /\ graph \in { GraphShim, GraphCycle }
  /\ last = LastBase
  /\ burst = NoBurst
  /\ rt = RtIdle

NextGuard ==
  \/ \E f \in GuardUniverse : FsAdd(f)
  \/ \E f \in GuardUniverse : FsUnlink(f)
  \/ \E f \in GuardUniverse : FsChange(f)
  \/ TimerFire

SpecGuard == InitGuard /\ [][NextGuard]_vars

\* C29 as stated: an add, unlink or change event on a file that is outside
\* every override directory or whose extension is not in the allowed set
\* leaves the Resolver State unchanged, does not start or reset the debounce
\* timer, invalidates no module and sends no full reload.
C29_AsStated ==
  [][(/\ last'.op \in {"add", "unlink", "change"}
      /\ ~QualifiesStructural(last'.file, opts)) =>
       /\ state' = state
       /\ liveTimers' = liveTimers
       /\ debounceTimer' = debounceTimer
       /\ last'.invalidated = {}
       /\ last'.reloads = 0]_vars

(***************************************************************************)
(* index files at the top of an override root                              *)
(***************************************************************************)

fIndex == dirO \o << sIndex \o sTs >>
fNsIndex == dirO \o << <<"@","a">>, <<"u">>, sIndex \o sTs >>

\* A source file of @a/u named like the override root
uO == srcU \o << <<"o">> \o sTs >>

RootUniverse == { fIndex, fNsIndex, fBIndex }

InitRoot ==
  /\ \E m \in {"basename", "path"} : opts = [MainOpts EXCEPT !.match = m]
  /\ \E d \in SUBSET RootUniverse, t \in SUBSET { uO } : disk = d \cup t
  /\ phase = "active"
  /\ \E order \in ReaddirOrders :
       \E u \in { unlock(opts, disk \cup TargetDisk, order) } :
         /\ u.status = "active"
         /\ state = u.state
         /\ index = u.index
  /\ configPath = InitialConfigPath(opts, disk \cup TargetDisk)
  /\ debounceTimer = FALSE
  /\ liveTimers = 0
  /\ calls = {}
  /\ graph = GraphShim
  /\ last = LastBase
  /\ burst = NoBurst
  /\ rt = RtIdle

NextRoot ==
  \/ \E f \in RootUniverse : FsAdd(f)
  \/ \E f \in RootUniverse : FsUnlink(f)
  \/ TimerFire

SpecRoot == InitRoot /\ [][NextRoot]_vars

\* No key equal to index is stored in the flat mapping or in a namespaced one
NoIndexKey ==
  /\ ~MapHas(state.flatOverrides, sIndex)
  /\ \A ns \in DOMAIN state.namespacedOverrides :
       ~MapHas(state.namespacedOverrides[ns], sIndex)

\* C30 as stated: an index file directly in an override root is the value of
\* no entry of the flat mapping, and no key equal to index is stored in the
\* flat mapping or in a target's namespaced mapping.
C30_AsStated ==
  /\ \A k \in DOMAIN state.flatOverrides : state.flatOverrides[k] # fIndex
  /\ NoIndexKey

(***************************************************************************)
(* The resolution order of resolveId, under both match strategies          *)
(***************************************************************************)

\* Specifiers: a file of the package named through the package, a file below
\* a subdirectory, a specifier whose basename is empty, and the original of B
\* named through the alias ~u that the config hook sets for @a/u
srcPkgB == nameU \o <<"/","B">>
srcRelCB == <<".","/","C","/","B">>
srcSlash == <<"/">>
srcAliasB == <<"~","u","/","B">>

ResolveSources ==
  { srcRelB, srcRelIndex, nameU, srcVirtualB, srcPkgB, srcRelCB, srcSlash, srcAliasB }

ResolveImporters == { PathStr(uA), PathStr(dC), PathStr(fB), PathStr(appE) }

ResolveUniverse == { fB, fNsB, fCB }

ResolveLoadIds == { PathStr(uB), PathStr(uCB) }

\* unlock({targets: ["@a/u", "@a/d"], overrides: "/o", match}) on any set of
\* override files; @a/u has src/C/B.ts
InitResolve ==
  /\ \E m \in {"basename", "path"} : opts = [MainOpts EXCEPT !.match = m]
  /\ \E d \in SUBSET ResolveUniverse : disk = d \cup { uCB }
  /\ phase = "active"
  /\ \E order \in ReaddirOrders :
       \E u \in { unlock(opts, disk \cup TargetDisk, order) } :
         /\ u.status = "active"
         /\ state = u.state
         /\ index = u.index
  /\ configPath = InitialConfigPath(opts, disk \cup TargetDisk)
  /\ debounceTimer = FALSE
  /\ liveTimers = 0
  /\ calls = {}
  /\ graph = GraphShim
  /\ last = LastBase
  /\ burst = NoBurst
  /\ rt = RtIdle

NextResolve ==
  \/ \E source \in ResolveSources, importer \in ResolveImporters :
       ResolveId(source, importer)
  \/ \E call \in calls, resolved \in HostAnswers : HostResolve(call, resolved)
  \/ \E id \in ResolveLoadIds : Load(id)

SpecResolve == InitResolve /\ [][NextResolve]_vars

\* The basename of the specifier is a key of the namespaced mapping of target
\* t or of the flat mapping
HitsMapping(t, key) ==
  /\ IsKey(key)
  /\ \/ MapHas(NsMap(state.namespacedOverrides, opts.targets[t].package), key)
     \/ MapHas(state.flatOverrides, key)

HitPath(t, key) ==
  IF MapHas(NsMap(state.namespacedOverrides, opts.targets[t].package), key)
  THEN NsPath(t, key)
  ELSE state.flatOverrides[key]

IsOverridePath(p) == \E i \in 1..Len(opts.overrideDirs) : IsUnder(p, opts.overrideDirs[i])

\* The last step is a resolveId request, or its continuation after the host
\* resolved, for an importer owned by a target
OwnedRequest(ops) == last.op \in ops /\ ResolveOwner > 0

\* C31 as stated: for an importer owned by a target, a specifier whose
\* basename is empty or index never yields an override path; a specifier whose
\* basename hits the namespaced or flat mapping returns the mapped path at
\* once, the host resolver not consulted; otherwise the host is consulted for
\* an entry redirect only when the specifier names the target's package, and
\* in every other case null is returned.
C31_AsStated ==
  /\ (OwnedRequest({"resolveId", "resume"}) /\ ~IsKey(ResolveKey)) =>
       ~IsOverridePath(last.ret)
  /\ (OwnedRequest({"resolveId"}) /\ HitsMapping(ResolveOwner, ResolveKey)) =>
       (last.ret = HitPath(ResolveOwner, ResolveKey) /\ ~last.suspended)
  /\ (OwnedRequest({"resolveId"}) /\ ~HitsMapping(ResolveOwner, ResolveKey)) =>
       /\ last.suspended <=> NamesPackage(last.source, opts.targets[ResolveOwner])
       /\ last.ret = NULL

\* C31: the same resolution order for every specifier that is not a virtual
\* id (one starting with the NUL character, for which resolveId returns null
\* before any lookup): no override path for an empty or index basename; the
\* mapped path, namespaced before flat, returned at once on a hit; the host
\* consulted exactly when there is no hit and the specifier names the owning
\* target's package; null otherwise.
C31_ResolutionOrder ==
  ~startsWith(last.source, <<NUL>>) => C31_AsStated

\* "@a/u/B" names the package of the importer's target and hits the mapping
C31_Witness ==
  /\ OwnedRequest({"resolveId"})
  /\ last.source = srcPkgB
  /\ HitsMapping(ResolveOwner, ResolveKey)
  /\ last.ret = fB

(***************************************************************************)
(* Importer ownership when a package has no source subdirectory            *)
(***************************************************************************)

\* The package @a/r, installed at /n/@a/r beside @a/u and @a/d
pkgR == << <<"n">>, <<"@","a">>, <<"r">> >>
nameR == <<"@","a","/","r">>
rB == pkgR \o << <<"B">> \o sTs >>
rSrcB == pkgR \o << <<"s","r","c">>, <<"B">> \o sTs >>

\* findPackageSrcPath once the package root is located: the source
\* subdirectory when it exists, the package root when it does not
findPackageSrcPath(pkgRoot, srcDir, files) ==
  IF \E f \in files : IsUnder(f, pkgRoot \o << srcDir >>)
  THEN pkgRoot \o << srcDir >>
  ELSE pkgRoot

\* resolveTarget("@a/r") on the files of the package
TargetR(files) ==
  [package |-> nameR, srcPath |-> findPackageSrcPath(pkgR, <<"s","r","c">>, files),
   entryRedirect |-> NoEntryRedirect]

OwnerTargets(files) ==
  { << TargetR(files) >>, << TargetR(files), TargetD >>, << TargetD, TargetR(files) >> }

OwnerImporters ==
  { PathStr(rB), PathStr(rSrcB), PathStr(dC), PathStr(uA), PathStr(appE) }

\* unlock({targets, overrides: "/o"}) with @a/r shipping B.ts at its root, below
\* src, at both places or not at all
InitOwner ==
  /\ \E layout \in SUBSET { rB, rSrcB }, d \in SUBSET { fB } :
       /\ disk = layout \cup d
       /\ \E targets \in OwnerTargets(layout) : opts = [MainOpts EXCEPT !.targets = targets]
  /\ phase = "active"
  /\ \E order \in ReaddirOrders :
       \E u \in { unlock(opts, disk \cup TargetDisk, order) } :
         /\ u.status = "active"
         /\ state = u.state
         /\ index = u.index
  /\ configPath = InitialConfigPath(opts, disk \cup TargetDisk)
  /\ debounceTimer = FALSE
  /\ liveTimers = 0
  /\ calls = {}
  /\ graph = GraphShim
  /\ last = LastBase
  /\ burst = NoBurst
  /\ rt = RtIdle

NextOwner ==
  \/ \E source \in { srcRelB, nameR }, importer \in OwnerImporters :
       ResolveId(source, importer)
  \/ \E call \in calls, resolved \in HostAnswers : HostResolve(call, resolved)

SpecOwner == InitOwner /\ [][NextOwner]_vars

\* Where the packages are installed
InstalledAt(package) ==
  IF package = nameR THEN pkgR ELSE IF package = nameD THEN pkgD ELSE pkgU

\* The importer lies inside the package directory of target t
InsidePackage(importer, t) ==
  \/ importer = PathStr(InstalledAt(opts.targets[t].package))
  \/ startsWith(importer, PathStr(InstalledAt(opts.targets[t].package)) \o <<"/">>)

\* C32 as stated: the target that findImporterTarget returns for the importer
\* of a resolveId request has the importer inside its own package directory,
\* also when its source root fell back to the package root, and a request is
\* redirected to an override only for an importer inside a target's package.
C32_AsStated ==
  /\ (last.op = "resolveId" /\ last.importer # NULL /\ ResolveOwner > 0) =>
       InsidePackage(last.importer, ResolveOwner)
  /\ (last.op = "resolveId" /\ IsOverridePath(last.ret)) =>
       \E t \in 1..Len(opts.targets) : InsidePackage(last.importer, t)

(***************************************************************************)
(* Entry redirects with several targets                                    *)
(***************************************************************************)

\* The last step resumed a request naming target t that the host had resolved
\* to a file of the package of t, and resolveEntryRedirect returned a path
RedirectedFor(t) ==
  /\ last.op = "resume"
  /\ NamesPackage(last.source, opts.targets[t])
  /\ startsWith(last.resolved, PathStr(dirname(opts.targets[t].srcPath)) \o <<"/">>)
  /\ last.ret # NULL

\* C33 as stated: when a request names the package of target T and
\* resolveEntryRedirect returns a path, the path is a file inside the package
\* directory of T, is not the source entry of another configured target, and
\* differs from the resolved path it was derived from.
C33_AsStated ==
  \A t \in 1..Len(opts.targets) :
    RedirectedFor(t) =>
      /\ IsUnder(last.ret, dirname(opts.targets[t].srcPath))
      /\ \A o \in 1..Len(opts.targets) :
           o # t => last.ret # SrcAppOf(dirname(opts.targets[o].srcPath))
      /\ PathStr(last.ret) # last.resolved

(***************************************************************************)
(* Content edits of files that are not overrides                           *)
(***************************************************************************)

\* The files the flat mapping or a namespaced mapping maps a key to
MappedFiles ==
  Range2(state.flatOverrides) \cup
  UNION { Range2(state.namespacedOverrides[ns]) : ns \in DOMAIN state.namespacedOverrides }

\* C34 as stated: a change event on a file below an override directory that
\* neither the flat nor a namespaced mapping maps a key to makes the override
\* content handler invalidate no module and send no full reload, also when the
\* file's basename is a key that another file overrides.
C34_AsStated ==
  (last.op = "change" /\ isOverrideFile(last.file, opts) /\ last.file \notin MappedFiles) =>
    /\ last.contentInvalidated = {}
    /\ ContentReloads = 0

(***************************************************************************)
(* Reachability of the stored overrides                                    *)
(***************************************************************************)

\* Some request from an importer owned by target t returns path
ReachableFrom(t, path) ==
  \E source \in ResolveSources, importer \in ResolveImporters :
    /\ findImporterTarget(importer, opts) = t
    /\ resolveIdStart(source, importer, state, opts).ret = path

\* C35 as stated: for every key of the flat mapping there is a request from an
\* importer owned by some target, and for every key of the namespaced mapping
\* of target T a request from an importer owned by T, for which resolveId
\* returns the mapped override path, under the basename and the path strategy.
C35_AsStated ==
  /\ \A k \in DOMAIN state.flatOverrides :
       \E t \in 1..Len(opts.targets) : ReachableFrom(t, state.flatOverrides[k])
  /\ \A t \in 1..Len(opts.targets) :
       \A k \in DOMAIN NsMap(state.namespacedOverrides, opts.targets[t].package) :
         ReachableFrom(t, NsPath(t, k))

(***************************************************************************)
(* The original module of a namespaced key produced by several targets     *)
(***************************************************************************)

\* Every configured target has a source file producing key k
ProducedByAll(k) ==
  \A o \in 1..Len(opts.targets) : OriginalsOf(opts.targets[o].package, k) # {}

\* What a recomputation may invalidate for key k of target t: the target's own
\* file for k, the override module, and their transitive importers
OwnClosure(t, k, old, new) ==
  WithImporters((OriginalsOf(opts.targets[t].package, k)
                 \cup { OverrideModule(k, old, new) }) \cap graph.mods)

\* C36 as stated: when a recomputation creates, changes or deletes key K in
\* the namespaced mapping of target T, and every target has a file producing
\* K, the original module it invalidates is the source file of T for K when
\* the graph has it, and the file of another target producing K is invalidated
\* only as a transitive importer, the flat mapping being unchanged.
C36_AsStated ==
  [][FireStep =>
      \A t \in 1..Len(opts.targets) :
        \A k \in Differing(NsMap(state.namespacedOverrides, opts.targets[t].package),
                           NsMap(state'.namespacedOverrides, opts.targets[t].package)) :
          ProducedByAll(k) =>
            /\ (OriginalsOf(opts.targets[t].package, k) \cap graph.mods)
                 \subseteq last'.invalidated
            /\ state'.flatOverrides = state.flatOverrides =>
                 \A o \in 1..Len(opts.targets) :
                   o # t =>
                     (OriginalsOf(opts.targets[o].package, k) \cap last'.invalidated)
                       \subseteq OwnClosure(t, k,
                                   NsMap(state.namespacedOverrides, opts.targets[t].package),
                                   NsMap(state'.namespacedOverrides, opts.targets[t].package))]_vars

(***************************************************************************)
(* Requests between the deletion of an override and the recomputation      *)
(***************************************************************************)

\* C37 as stated: in every state, also while a deleted override file awaits
\* the debounced recomputation, a resolveId request returns an override path
\* only if that file is on disk at the time of the request.
C37_AsStated ==
  (last.op = "resolveId" /\ IsOverridePath(last.ret)) => last.ret \in Files

(***************************************************************************)
(* An override that imports the original it replaces                       *)
(***************************************************************************)

\* The last step is a request from an override file for the module with
\* basename k, which resolveId hands on to the host (it returns null)
ImportsOriginal(k) ==
  /\ last.op = "resolveId"
  /\ IsOverridePath(ToPath(last.importer))
  /\ ToPath(last.importer) \in MappedFiles
  /\ ResolveKey = k
  /\ stripExtension(basename(ToPath(last.importer))) = k
  /\ last.ret = NULL
  /\ ~last.suspended

\* C38 as stated: when an override file for key K imports the original target
\* file of K through the target's alias and the original file is then loaded,
\* the content served for the original is not a re-export shim pointing back
\* at that override.
C38_AsStated ==
  [][(/\ ImportsOriginal(keyB)
      /\ last.source = srcAliasB
      /\ last'.op = "load"
      /\ last'.file = uB)
     => ~(last'.code.kind = "shim" /\ last'.code.path = ToPath(last.importer))]_vars

====
